---- MODULE Spec2Model ----
(***************************************************************************)
(* RAFT3D: the replicated state machine of internal/fsm (Store, FSM.Apply, *)
(* FSM.Snapshot, Snapshot.Persist, FSM.Restore) and the validation rules   *)
(* of pkg/models.                                                          *)
(*                                                                         *)
(* JSON text is modelled by the JSON value it denotes: an object is a      *)
(* record keyed by the member names, a string is a string, a number an     *)
(* integer; [json |-> "invalid"] is text that is not JSON at all.          *)
(***************************************************************************)
EXTENDS Integers, Sequences, FiniteSets, TLC

\* ------------------------------------------------------------------ bounds

\* Largest weight (grams) a payload carries.
MaxWeight == 2

\* Identifiers commands carry.  "p9", "f9", "j9" are never created.
PrinterIds == {"p1"}
FilamentIds == {"f1", "f2"}
JobIds == {"j1"}

\* ------------------------------------------------------------- constants

EntityPrinter == "printer"
EntityFilament == "filament"
EntityPrintJob == "print_job"

OpCreate == "create"
OpUpdate == "update"
OpDelete == "delete"

StatusQueued == "Queued"
StatusRunning == "Running"
StatusDone == "Done"
StatusCancelled == "Cancelled"

\* The nil error / nil interface value returned on success.
Nil == "nil"

\* A nil map or a nil pointer to a record: a value with nothing behind it.
NilPointer == [nil |-> TRUE]

\* ------------------------------------------------------------------ maps

EmptyMap == [k \in {} |-> k]

MapPut(m, k, v) == [x \in (DOMAIN m) \cup {k} |-> IF x = k THEN v ELSE m[x]]

MapDelete(m, k) == [x \in (DOMAIN m) \ {k} |-> m[x]]

NewStore == [printers |-> EmptyMap, filaments |-> EmptyMap, printJobs |-> EmptyMap]

\* ------------------------------------------------------- JSON decoding

\* A member of a JSON object, or the Go zero value when it is absent.
Field(obj, name, zero) == IF name \in DOMAIN obj THEN obj[name] ELSE zero

\* json.Unmarshal(payload, &struct): an object fills the tagged fields, null
\* leaves the zero value, anything else is an error.
ObjectOf(payload) ==
    IF payload.json = "object" THEN [err |-> FALSE, obj |-> payload.obj]
    ELSE IF payload.json = "null" THEN [err |-> FALSE, obj |-> EmptyMap]
    ELSE [err |-> TRUE, obj |-> EmptyMap]

DecodePrinter(payload) ==
    LET d == ObjectOf(payload) IN
    [err |-> d.err,
     v |-> [ID |-> Field(d.obj, "id", ""),
            Company |-> Field(d.obj, "company", ""),
            Model |-> Field(d.obj, "model", "")]]

DecodeFilament(payload) ==
    LET d == ObjectOf(payload) IN
    [err |-> d.err,
     v |-> [ID |-> Field(d.obj, "id", ""),
            Type |-> Field(d.obj, "type", ""),
            Color |-> Field(d.obj, "color", ""),
            TotalWeightInGrams |-> Field(d.obj, "total_weight_in_grams", 0),
            RemainingWeightInGrams |-> Field(d.obj, "remaining_weight_in_grams", 0)]]

DecodePrintJob(payload) ==
    LET d == ObjectOf(payload) IN
    [err |-> d.err,
     v |-> [ID |-> Field(d.obj, "id", ""),
            PrinterID |-> Field(d.obj, "printer_id", ""),
            FilamentID |-> Field(d.obj, "filament_id", ""),
            Filepath |-> Field(d.obj, "filepath", ""),
            PrintWeightInGrams |-> Field(d.obj, "print_weight_in_grams", 0),
            Status |-> Field(d.obj, "status", "")]]

DecodeStatusChange(payload) ==
    LET d == ObjectOf(payload) IN
    [err |-> d.err,
     v |-> [ID |-> Field(d.obj, "id", ""), Status |-> Field(d.obj, "status", "")]]

\* json.Unmarshal(payload, &id) with id a string.
DecodeID(payload) ==
    IF payload.json = "string" THEN [err |-> FALSE, v |-> payload.str]
    ELSE IF payload.json = "null" THEN [err |-> FALSE, v |-> ""]
    ELSE [err |-> TRUE, v |-> ""]

\* ------------------------------------------------------------ validation

\* Printer.Validate without the test of the model.
PrinterValidate_noModel(p) ==
    IF p.ID = "" THEN "printer ID cannot be empty"
    ELSE IF p.Company = "" THEN "printer company cannot be empty"
    ELSE Nil

PrinterValidate(p) ==
    IF p.ID = "" THEN "printer ID cannot be empty"
    ELSE IF p.Company = "" THEN "printer company cannot be empty"
    ELSE IF p.Model = "" THEN "printer model cannot be empty"
    ELSE Nil

validTypes == {"PLA", "PETG", "ABS", "TPU"}

FilamentValidate(f) ==
    IF f.ID = "" THEN "filament ID cannot be empty"
    ELSE IF f.Type \notin validTypes THEN "filament type must be one of: PLA, PETG, ABS, TPU"
    ELSE IF f.Color = "" THEN "filament color cannot be empty"
    ELSE IF f.TotalWeightInGrams <= 0 THEN "total weight must be positive"
    ELSE IF f.RemainingWeightInGrams < 0 \/ f.RemainingWeightInGrams > f.TotalWeightInGrams
         THEN "remaining weight must be between 0 and total weight"
    ELSE Nil

validStatuses == {StatusQueued, StatusRunning, StatusDone, StatusCancelled}

PrintJobValidate(j) ==
    IF j.ID = "" THEN "print job ID cannot be empty"
    ELSE IF j.PrinterID = "" THEN "printer ID cannot be empty"
    ELSE IF j.FilamentID = "" THEN "filament ID cannot be empty"
    ELSE IF j.Filepath = "" THEN "filepath cannot be empty"
    ELSE IF j.PrintWeightInGrams <= 0 THEN "print weight must be positive"
    ELSE IF j.Status \notin validStatuses
         THEN "status must be one of: Queued, Running, Done, Cancelled"
    ELSE Nil

\* validTransitions with Queued -> Done let through.
validTransitions_queuedDone ==
    [s \in {StatusQueued, StatusRunning} |->
        IF s = StatusQueued THEN {StatusRunning, StatusCancelled, StatusDone}
        ELSE {StatusDone, StatusCancelled}]

validTransitions ==
    [s \in {StatusQueued, StatusRunning} |->
        IF s = StatusQueued THEN {StatusRunning, StatusCancelled}
        ELSE {StatusDone, StatusCancelled}]

ValidateTransition(j, newStatus) ==
    IF j.Status \in DOMAIN validTransitions /\ newStatus \in validTransitions[j.Status]
    THEN Nil
    ELSE "invalid status transition"

\* ------------------------------------------------------------ FSM.Apply

\* What one handler returns: the value handed back to the caller (Nil or an
\* error message) and the store it leaves behind.
Ret(res, st) == [res |-> res, store |-> st]

\* applyPrinterCommand storing the printer of an Update it then refuses.
applyPrinterCommand_upsert(st, cmd) ==
    IF cmd.op = OpCreate THEN
        LET d == DecodePrinter(cmd.payload) IN
        IF d.err THEN Ret("failed to unmarshal printer", st)
        ELSE IF PrinterValidate(d.v) # Nil THEN Ret(PrinterValidate(d.v), st)
        ELSE Ret(Nil, [st EXCEPT !.printers = MapPut(@, d.v.ID, d.v)])
    ELSE IF cmd.op = OpUpdate THEN
        LET d == DecodePrinter(cmd.payload) IN
        IF d.err THEN Ret("failed to unmarshal printer", st)
        ELSE IF PrinterValidate(d.v) # Nil THEN Ret(PrinterValidate(d.v), st)
        ELSE IF d.v.ID \notin DOMAIN st.printers
             THEN Ret("printer not found", [st EXCEPT !.printers = MapPut(@, d.v.ID, d.v)])
        ELSE Ret(Nil, [st EXCEPT !.printers = MapPut(@, d.v.ID, d.v)])
    ELSE IF cmd.op = OpDelete THEN
        LET d == DecodeID(cmd.payload) IN
        IF d.err THEN Ret("failed to unmarshal ID", st)
        ELSE IF d.v \notin DOMAIN st.printers THEN Ret("printer not found", st)
        ELSE Ret(Nil, [st EXCEPT !.printers = MapDelete(@, d.v)])
    ELSE Ret("unknown printer operation", st)

applyPrinterCommand(st, cmd) ==
    IF cmd.op = OpCreate THEN
        LET d == DecodePrinter(cmd.payload) IN
        IF d.err THEN Ret("failed to unmarshal printer", st)
        ELSE IF PrinterValidate(d.v) # Nil THEN Ret(PrinterValidate(d.v), st)
        ELSE Ret(Nil, [st EXCEPT !.printers = MapPut(@, d.v.ID, d.v)])
    ELSE IF cmd.op = OpUpdate THEN
        LET d == DecodePrinter(cmd.payload) IN
        IF d.err THEN Ret("failed to unmarshal printer", st)
        ELSE IF PrinterValidate(d.v) # Nil THEN Ret(PrinterValidate(d.v), st)
        ELSE IF d.v.ID \notin DOMAIN st.printers THEN Ret("printer not found", st)
        ELSE Ret(Nil, [st EXCEPT !.printers = MapPut(@, d.v.ID, d.v)])
    ELSE IF cmd.op = OpDelete THEN
        LET d == DecodeID(cmd.payload) IN
        IF d.err THEN Ret("failed to unmarshal ID", st)
        ELSE IF d.v \notin DOMAIN st.printers THEN Ret("printer not found", st)
        ELSE Ret(Nil, [st EXCEPT !.printers = MapDelete(@, d.v)])
    ELSE Ret("unknown printer operation", st)

\* applyFilamentCommand storing the filament of an Update whose id is not stored.
applyFilamentCommand_upsert(st, cmd) ==
    IF cmd.op = OpCreate \/ cmd.op = OpUpdate THEN
        LET d == DecodeFilament(cmd.payload) IN
        IF d.err THEN Ret("failed to unmarshal filament", st)
        ELSE IF FilamentValidate(d.v) # Nil THEN Ret(FilamentValidate(d.v), st)
        ELSE Ret(Nil, [st EXCEPT !.filaments = MapPut(@, d.v.ID, d.v)])
    ELSE IF cmd.op = OpDelete THEN
        LET d == DecodeID(cmd.payload) IN
        IF d.err THEN Ret("failed to unmarshal ID", st)
        ELSE IF d.v \notin DOMAIN st.filaments THEN Ret("filament not found", st)
        ELSE Ret(Nil, [st EXCEPT !.filaments = MapDelete(@, d.v)])
    ELSE Ret("unknown filament operation", st)

applyFilamentCommand(st, cmd) ==
    IF cmd.op = OpCreate THEN
        LET d == DecodeFilament(cmd.payload) IN
        IF d.err THEN Ret("failed to unmarshal filament", st)
        ELSE IF FilamentValidate(d.v) # Nil THEN Ret(FilamentValidate(d.v), st)
        ELSE Ret(Nil, [st EXCEPT !.filaments = MapPut(@, d.v.ID, d.v)])
    ELSE IF cmd.op = OpUpdate THEN
        LET d == DecodeFilament(cmd.payload) IN
        IF d.err THEN Ret("failed to unmarshal filament", st)
        ELSE IF FilamentValidate(d.v) # Nil THEN Ret(FilamentValidate(d.v), st)
        ELSE IF d.v.ID \notin DOMAIN st.filaments THEN Ret("filament not found", st)
        ELSE Ret(Nil, [st EXCEPT !.filaments = MapPut(@, d.v.ID, d.v)])
    ELSE IF cmd.op = OpDelete THEN
        LET d == DecodeID(cmd.payload) IN
        IF d.err THEN Ret("failed to unmarshal ID", st)
        ELSE IF d.v \notin DOMAIN st.filaments THEN Ret("filament not found", st)
        ELSE Ret(Nil, [st EXCEPT !.filaments = MapDelete(@, d.v)])
    ELSE Ret("unknown filament operation", st)

\* printJobCreate with the sufficiency test written >= : a job that needs exactly
\* what is left is turned away.
printJobCreate_offByOne(st, payload) ==
    LET d == DecodePrintJob(payload)
        printJob == [d.v EXCEPT !.Status = StatusQueued]
    IN
    IF d.err THEN Ret("failed to unmarshal print job", st)
    ELSE IF PrintJobValidate(printJob) # Nil THEN Ret(PrintJobValidate(printJob), st)
    ELSE IF printJob.PrinterID \notin DOMAIN st.printers THEN Ret("printer not found", st)
    ELSE IF printJob.FilamentID \notin DOMAIN st.filaments THEN Ret("filament not found", st)
    ELSE IF printJob.PrintWeightInGrams >= st.filaments[printJob.FilamentID].RemainingWeightInGrams
         THEN Ret("insufficient filament", st)
    ELSE Ret(Nil, [st EXCEPT !.printJobs = MapPut(@, printJob.ID, printJob)])

\* printJobCreate with the insert moved before the cross-entity checks.
printJobCreate_insertFirst(st, payload) ==
    LET d == DecodePrintJob(payload)
        printJob == [d.v EXCEPT !.Status = StatusQueued]
        inserted == [st EXCEPT !.printJobs = MapPut(@, printJob.ID, printJob)]
    IN
    IF d.err THEN Ret("failed to unmarshal print job", st)
    ELSE IF PrintJobValidate(printJob) # Nil THEN Ret(PrintJobValidate(printJob), st)
    ELSE IF printJob.PrinterID \notin DOMAIN st.printers THEN Ret("printer not found", inserted)
    ELSE IF printJob.FilamentID \notin DOMAIN st.filaments THEN Ret("filament not found", inserted)
    ELSE IF printJob.PrintWeightInGrams > st.filaments[printJob.FilamentID].RemainingWeightInGrams
         THEN Ret("insufficient filament", inserted)
    ELSE Ret(Nil, inserted)

\* printJobCreate validating the record before the status is forced.
printJobCreate_validateFirst(st, payload) ==
    LET d == DecodePrintJob(payload)
        printJob == [d.v EXCEPT !.Status = StatusQueued]
    IN
    IF d.err THEN Ret("failed to unmarshal print job", st)
    ELSE IF PrintJobValidate(d.v) # Nil THEN Ret(PrintJobValidate(d.v), st)
    ELSE IF printJob.PrinterID \notin DOMAIN st.printers THEN Ret("printer not found", st)
    ELSE IF printJob.FilamentID \notin DOMAIN st.filaments THEN Ret("filament not found", st)
    ELSE IF printJob.PrintWeightInGrams > st.filaments[printJob.FilamentID].RemainingWeightInGrams
         THEN Ret("insufficient filament", st)
    ELSE Ret(Nil, [st EXCEPT !.printJobs = MapPut(@, printJob.ID, printJob)])

\* OpCreate of applyPrintJobCommand.
printJobCreate(st, payload) ==
    LET d == DecodePrintJob(payload)
        printJob == [d.v EXCEPT !.Status = StatusQueued]
    IN
    IF d.err THEN Ret("failed to unmarshal print job", st)
    ELSE IF PrintJobValidate(printJob) # Nil THEN Ret(PrintJobValidate(printJob), st)
    ELSE IF printJob.PrinterID \notin DOMAIN st.printers THEN Ret("printer not found", st)
    ELSE IF printJob.FilamentID \notin DOMAIN st.filaments THEN Ret("filament not found", st)
    ELSE IF printJob.PrintWeightInGrams > st.filaments[printJob.FilamentID].RemainingWeightInGrams
         THEN Ret("insufficient filament", st)
    ELSE Ret(Nil, [st EXCEPT !.printJobs = MapPut(@, printJob.ID, printJob)])

\* Deduct without the clamp at zero.
Deduct_noClamp(remaining, weight) == remaining - weight

\* filament.RemainingWeightInGrams -= printJob.PrintWeightInGrams, clamped at 0.
Deduct(remaining, weight) ==
    IF remaining - weight < 0 THEN 0 ELSE remaining - weight

\* deductFilament taking the weight off the wrong field.
deductFilament_total(st, printJob) ==
    [st EXCEPT !.filaments[printJob.FilamentID].TotalWeightInGrams =
                   Deduct(@, printJob.PrintWeightInGrams)]

\* The in-place mutation of the filament the job points to.
deductFilament(st, printJob) ==
    [st EXCEPT !.filaments[printJob.FilamentID].RemainingWeightInGrams =
                   Deduct(@, printJob.PrintWeightInGrams)]

\* printJob.Status = statusChange.Status, in place.
setStatus(st, id, status) == [st EXCEPT !.printJobs[id].Status = status]

\* printJobUpdate with the status written before the filament is looked up.
printJobUpdate_statusFirst(st, payload) ==
    LET d == DecodeStatusChange(payload) IN
    IF d.err THEN Ret("failed to unmarshal status change", st)
    ELSE IF d.v.ID \notin DOMAIN st.printJobs THEN Ret("print job not found", st)
    ELSE LET printJob == st.printJobs[d.v.ID]
             marked == setStatus(st, d.v.ID, d.v.Status)
         IN
         IF ValidateTransition(printJob, d.v.Status) # Nil
         THEN Ret(ValidateTransition(printJob, d.v.Status), st)
         ELSE IF d.v.Status = StatusDone
         THEN IF printJob.FilamentID \notin DOMAIN st.filaments
              THEN Ret("filament not found", marked)
              ELSE Ret(Nil, deductFilament(marked, printJob))
         ELSE Ret(Nil, marked)

\* printJobUpdate looking the filament up for every new status.
printJobUpdate_filamentAlways(st, payload) ==
    LET d == DecodeStatusChange(payload) IN
    IF d.err THEN Ret("failed to unmarshal status change", st)
    ELSE IF d.v.ID \notin DOMAIN st.printJobs THEN Ret("print job not found", st)
    ELSE LET printJob == st.printJobs[d.v.ID] IN
         IF ValidateTransition(printJob, d.v.Status) # Nil
         THEN Ret(ValidateTransition(printJob, d.v.Status), st)
         ELSE IF printJob.FilamentID \notin DOMAIN st.filaments
         THEN Ret("filament not found", st)
         ELSE IF d.v.Status = StatusDone
         THEN Ret(Nil, setStatus(deductFilament(st, printJob), d.v.ID, d.v.Status))
         ELSE Ret(Nil, setStatus(st, d.v.ID, d.v.Status))

\* OpUpdate of applyPrintJobCommand.
printJobUpdate(st, payload) ==
    LET d == DecodeStatusChange(payload) IN
    IF d.err THEN Ret("failed to unmarshal status change", st)
    ELSE IF d.v.ID \notin DOMAIN st.printJobs THEN Ret("print job not found", st)
    ELSE LET printJob == st.printJobs[d.v.ID] IN
         IF ValidateTransition(printJob, d.v.Status) # Nil
         THEN Ret(ValidateTransition(printJob, d.v.Status), st)
         ELSE IF d.v.Status = StatusDone
         THEN IF printJob.FilamentID \notin DOMAIN st.filaments
              THEN Ret("filament not found", st)
              ELSE Ret(Nil, setStatus(deductFilament(st, printJob), d.v.ID, d.v.Status))
         ELSE Ret(Nil, setStatus(st, d.v.ID, d.v.Status))

\* printJobDelete giving the weight of the deleted job back to its filament.
printJobDelete_restores(st, payload) ==
    LET d == DecodeID(payload) IN
    IF d.err THEN Ret("failed to unmarshal ID", st)
    ELSE IF d.v \notin DOMAIN st.printJobs THEN Ret("print job not found", st)
    ELSE LET printJob == st.printJobs[d.v]
             deleted == [st EXCEPT !.printJobs = MapDelete(@, d.v)]
         IN
         IF printJob.FilamentID \in DOMAIN st.filaments
         THEN Ret(Nil, [deleted EXCEPT
                          !.filaments[printJob.FilamentID].RemainingWeightInGrams =
                              @ + printJob.PrintWeightInGrams])
         ELSE Ret(Nil, deleted)

\* OpDelete of applyPrintJobCommand.
printJobDelete(st, payload) ==
    LET d == DecodeID(payload) IN
    IF d.err THEN Ret("failed to unmarshal ID", st)
    ELSE IF d.v \notin DOMAIN st.printJobs THEN Ret("print job not found", st)
    ELSE Ret(Nil, [st EXCEPT !.printJobs = MapDelete(@, d.v)])

applyPrintJobCommand(st, cmd) ==
    IF cmd.op = OpCreate THEN printJobCreate(st, cmd.payload)
    ELSE IF cmd.op = OpUpdate THEN printJobUpdate(st, cmd.payload)
    ELSE IF cmd.op = OpDelete THEN printJobDelete(st, cmd.payload)
    ELSE Ret("unknown print job operation", st)

\* json.Unmarshal(log.Data, &cmd); a payload member that is absent leaves the
\* RawMessage empty, which no later Unmarshal accepts.
DecodeCommand(data) ==
    LET obj == ObjectOf(data).obj IN
    [op |-> Field(obj, "op", ""),
     entity_type |-> Field(obj, "entity_type", ""),
     payload |-> Field(obj, "payload", [json |-> "absent"])]

\* FSM.Apply on the bytes of one log entry.
Apply(st, data) ==
    IF ObjectOf(data).err THEN Ret("failed to unmarshal command", st)
    ELSE LET cmd == DecodeCommand(data) IN
         IF cmd.entity_type = EntityPrinter THEN applyPrinterCommand(st, cmd)
         ELSE IF cmd.entity_type = EntityFilament THEN applyFilamentCommand(st, cmd)
         ELSE IF cmd.entity_type = EntityPrintJob THEN applyPrintJobCommand(st, cmd)
         ELSE Ret("unknown entity type", st)

\* ------------------------------------------------------------ the inputs

Obj(r) == [json |-> "object", obj |-> r]
Str(x) == [json |-> "string", str |-> x]
Null == [json |-> "null"]
Invalid == [json |-> "invalid"]

Weights == 1..MaxWeight

PrinterPayloads ==
    {Obj([id |-> i, company |-> c, model |-> "MK3"]) :
        i \in PrinterIds \cup {""}, c \in {"Prusa", "Creality", ""}}
    \cup {Obj([id |-> "p1", company |-> "Prusa"]), Null, Invalid, Str("p1")}

FilamentObj(i, ty, co, tot, rem) ==
    Obj([id |-> i, type |-> ty, color |-> co,
         total_weight_in_grams |-> tot, remaining_weight_in_grams |-> rem])

FilamentPayloads ==
    {FilamentObj(i, "PLA", "Red", tot, rem) :
        i \in FilamentIds, tot \in Weights, rem \in 0..MaxWeight}
    \cup {FilamentObj("", "PLA", "Red", 1, 1),
          FilamentObj("f1", "Nylon", "Red", 1, 1),
          FilamentObj("f1", "PLA", "", 1, 1),
          FilamentObj("f1", "PLA", "Red", 0, 0),
          FilamentObj("f1", "PLA", "Red", 1, -1),
          Obj([id |-> "f1", type |-> "PLA", color |-> "Red"]),
          Null, Invalid}

PrintJobObj(i, p, f, path, w) ==
    Obj([id |-> i, printer_id |-> p, filament_id |-> f, filepath |-> path,
         print_weight_in_grams |-> w])

PrintJobPayloads ==
    {PrintJobObj(i, p, f, "a.gcode", w) :
        i \in JobIds, p \in PrinterIds \cup {"p9"}, f \in FilamentIds \cup {"f9"},
        w \in 1..(MaxWeight + 1)}
    \cup {PrintJobObj("", "p1", "f1", "a.gcode", 1),
          PrintJobObj("j1", "", "f1", "a.gcode", 1),
          PrintJobObj("j1", "p1", "", "a.gcode", 1),
          PrintJobObj("j1", "p1", "f1", "", 1),
          PrintJobObj("j1", "p1", "f1", "a.gcode", 0),
          PrintJobObj("j1", "p1", "f1", "a.gcode", -1),
          Null, Invalid}
    \cup {Obj([id |-> "j1", printer_id |-> "p1", filament_id |-> "f1",
               filepath |-> "a.gcode", print_weight_in_grams |-> 1, status |-> s]) :
            s \in {StatusRunning, StatusDone, StatusCancelled, "", "Paused"}}

StatusChangePayloads ==
    {Obj([id |-> i, status |-> s]) :
        i \in JobIds \cup {"j9"}, s \in validStatuses \cup {"", "Paused"}}
    \cup {Obj([id |-> "j1"]), Null, Invalid}

IDPayloads(ids, missing) == {Str(i) : i \in ids \cup {missing}} \cup {Null, Invalid}

Cmd(op, entity, payload) == Obj([op |-> op, entity_type |-> entity, payload |-> payload])

\* The log entries the consensus engine may deliver.
Commands ==
    {Cmd(op, EntityPrinter, pl) : op \in {OpCreate, OpUpdate}, pl \in PrinterPayloads}
    \cup {Cmd(OpDelete, EntityPrinter, pl) : pl \in IDPayloads(PrinterIds, "p9")}
    \cup {Cmd(op, EntityFilament, pl) : op \in {OpCreate, OpUpdate}, pl \in FilamentPayloads}
    \cup {Cmd(OpDelete, EntityFilament, pl) : pl \in IDPayloads(FilamentIds, "f9")}
    \cup {Cmd(OpCreate, EntityPrintJob, pl) : pl \in PrintJobPayloads}
    \cup {Cmd(OpUpdate, EntityPrintJob, pl) : pl \in StatusChangePayloads}
    \cup {Cmd(OpDelete, EntityPrintJob, pl) : pl \in IDPayloads(JobIds, "j9")}
    \cup {Cmd("upsert", e, Null) : e \in {EntityPrinter, EntityFilament, EntityPrintJob}}
    \cup {Cmd(OpCreate, "spool", Null), Obj([op |-> OpCreate, entity_type |-> EntityPrinter]),
          Null, Invalid}

\* ------------------------------------------------- Snapshot and Restore

\* FSM.Snapshot: three fresh maps, each entry a copy of the stored record.
Snapshot(st) ==
    [Printers |-> [k \in DOMAIN st.printers |-> st.printers[k]],
     Filaments |-> [k \in DOMAIN st.filaments |-> st.filaments[k]],
     PrintJobs |-> [k \in DOMAIN st.printJobs |-> st.printJobs[k]]]

\* json.Marshal of the three record types: one member per json tag.
MarshalPrinter(p) == Obj([id |-> p.ID, company |-> p.Company, model |-> p.Model])

MarshalFilament(f) ==
    Obj([id |-> f.ID, type |-> f.Type, color |-> f.Color,
         total_weight_in_grams |-> f.TotalWeightInGrams,
         remaining_weight_in_grams |-> f.RemainingWeightInGrams])

MarshalPrintJob(j) ==
    Obj([id |-> j.ID, printer_id |-> j.PrinterID, filament_id |-> j.FilamentID,
         filepath |-> j.Filepath, print_weight_in_grams |-> j.PrintWeightInGrams,
         status |-> j.Status])

\* json.Marshal(s) of Persist with the PrintJobs member left out, as happens
\* when the field is not exported.
MarshalSnapshot_noJobs(s) ==
    Obj([Printers |-> Obj([k \in DOMAIN s.Printers |-> MarshalPrinter(s.Printers[k])]),
         Filaments |-> Obj([k \in DOMAIN s.Filaments |-> MarshalFilament(s.Filaments[k])])])

\* json.Marshal(s) of Persist: the Snapshot struct has no tags, so its members
\* carry the field names; a map is an object keyed by the map's keys.
MarshalSnapshot(s) ==
    Obj([Printers |-> Obj([k \in DOMAIN s.Printers |-> MarshalPrinter(s.Printers[k])]),
         Filaments |-> Obj([k \in DOMAIN s.Filaments |-> MarshalFilament(s.Filaments[k])]),
         PrintJobs |-> Obj([k \in DOMAIN s.PrintJobs |-> MarshalPrintJob(s.PrintJobs[k])])])

\* The member `name` of the snapshot object decoded into a map of pointers to
\* records. A member that is absent or null leaves the map nil, and an entry
\* that is null leaves a nil pointer under its key; neither is an error to the
\* decoder.
DecodeMap(obj, name) ==
    LET m == Field(obj, name, Null)
        Dec(e) == IF name = "Printers" THEN DecodePrinter(e)
                  ELSE IF name = "Filaments" THEN DecodeFilament(e)
                  ELSE DecodePrintJob(e)
    IN
    IF m.json = "object"
    THEN [err |-> \E k \in DOMAIN m.obj : Dec(m.obj[k]).err,
          v |-> [k \in DOMAIN m.obj |->
                    IF m.obj[k].json = "null" THEN NilPointer ELSE Dec(m.obj[k]).v]]
    ELSE [err |-> m.json # "null", v |-> NilPointer]

\* decoder.Decode(&snapshot) of Restore.
DecodeSnapshot(stream) ==
    LET d == ObjectOf(stream)
        ps == DecodeMap(d.obj, "Printers")
        fs == DecodeMap(d.obj, "Filaments")
        js == DecodeMap(d.obj, "PrintJobs")
    IN
    [err |-> d.err \/ ps.err \/ fs.err \/ js.err,
     v |-> [Printers |-> ps.v, Filaments |-> fs.v, PrintJobs |-> js.v]]

\* The three assignments of Restore, in the order the code makes them.
restorePrinters(st, snapshot) == [st EXCEPT !.printers = snapshot.Printers]

restoreFilaments(st, snapshot) == [st EXCEPT !.filaments = snapshot.Filaments]

\* restorePrintJobs keeping the jobs the snapshot does not name.
restorePrintJobs_merge(st, snapshot) ==
    [st EXCEPT !.printJobs =
        [k \in DOMAIN @ \cup DOMAIN snapshot.PrintJobs |->
            IF k \in DOMAIN snapshot.PrintJobs THEN snapshot.PrintJobs[k] ELSE @[k]]]

restorePrintJobs(st, snapshot) == [st EXCEPT !.printJobs = snapshot.PrintJobs]

\* Restore assigning what the decoder filled in before it looks at the error.
Restore_assignFirst(st, stream) ==
    LET d == DecodeSnapshot(stream) IN
    Ret(IF d.err THEN "failed to decode snapshot" ELSE Nil,
        restorePrintJobs(restoreFilaments(restorePrinters(st, d.v), d.v), d.v))

\* FSM.Restore on the bytes of a snapshot.
Restore(st, stream) ==
    LET d == DecodeSnapshot(stream) IN
    IF d.err THEN Ret("failed to decode snapshot", st)
    ELSE Ret(Nil, restorePrintJobs(restoreFilaments(restorePrinters(st, d.v), d.v), d.v))

\* ----------------------------------------------------------------- state

\* Deductions counted per job before the count stops growing.
MaxDeductions == 2

\* Snapshots taken in one behaviour, and log entries applied after the first.
MaxSnapshots == 1
MaxAppliedSince == 1

VARIABLES
    store,       \* the Store of the FSM: printers, filaments, printJobs
    call,        \* the call on the FSM whose result the caller has not consumed yet
    snap,        \* the Snapshot object FSM.Snapshot returned last
    sink,        \* the bytes Snapshot.Persist wrote to the snapshot sink
    deductions,  \* per stored job id, the Apply calls that lowered a filament for it
    snapshots,   \* FSM.Snapshot calls so far
    appliedSince,\* log entries applied since the first snapshot
    procs,       \* per goroutine: where it stands in its call and the call's locals
    writer,      \* Store.mu: the goroutine holding the write lock, 0 for none
    readers,     \* Store.mu: the goroutines holding the read lock
    heap,        \* the Store as Go holds it: maps of pointers, and the records behind them
    kept,        \* the log entries applied so far that Apply accepted
    cluster      \* the nodes: each one's raft state and store, the log, the HTTP requests

vars == <<store, call, snap, sink, deductions, snapshots, appliedSince,
          procs, writer, readers, heap, kept, cluster>>

\* What the calls made one at a time leave alone, and what the concurrent
\* calls leave alone; the calls on one FSM leave the cluster alone.
concOnly == <<procs, writer, readers, cluster>>
seqOnly == <<call, snap, deductions, snapshots, appliedSince, cluster>>

\* Goroutines calling into the FSM and the Store at the same time, and calls
\* each of them makes.
NumProcs == 2
MaxCalls == 2

Procs == 1..NumProcs

\* A goroutine that has made no call.
Fresh == [pc |-> "idle", calls |-> 0, name |-> "none"]

\* NewStore as Go holds it: three empty maps of pointers, no record allocated.
NewHeap ==
    [printers |-> EmptyMap, filaments |-> EmptyMap, printJobs |-> EmptyMap, mem |-> <<>>]

\* No log entry has been applied.
NoLog == [log |-> <<>>, base |-> 0, n |-> 0, res |-> Nil]

\* No call is waiting for its result.
Idle == [name |-> "none"]

NoSnapshot == [taken |-> FALSE]
NoBytes == [written |-> FALSE]

\* HTTP requests sent to the cluster in one behaviour.
MaxRequests == 2

\* The nodes of the cluster and the HTTP requests they are sent.
Nodes == {"n1", "n2"}
Requests == 1..MaxRequests

Leader == "Leader"
Follower == "Follower"

\* A request nobody has sent yet.
NoRequest == [pc |-> "new"]

\* The cluster at start: no leader elected, every FSM new, nothing in the log.
NewCluster ==
    [role |-> [n \in Nodes |-> Follower],
     stores |-> [n \in Nodes |-> NewStore],
     applied |-> [n \in Nodes |-> 0],
     log |-> <<>>,
     reqs |-> [r \in Requests |-> NoRequest]]

Init ==
    /\ store = NewStore
    /\ call = Idle
    /\ snap = NoSnapshot
    /\ sink = NoBytes
    /\ deductions = EmptyMap
    /\ snapshots = 0
    /\ appliedSince = 0
    /\ procs = [p \in Procs |-> Fresh]
    /\ writer = 0
    /\ readers = {}
    /\ heap = NewHeap
    /\ kept = NoLog
    /\ cluster = NewCluster

\* FSM.Apply on one log entry.  The call record keeps the entry, the store
\* before the call and the value returned.
ApplyStep(data) ==
    LET r == Apply(store, data) IN
    /\ store' = r.store
    /\ call' = [name |-> "Apply", data |-> data, cmd |-> DecodeCommand(data),
                before |-> store, res |-> r.res]

\* The consensus engine hands one committed log entry to FSM.Apply.
ApplyLog ==
    /\ call = Idle
    /\ \E data \in Commands : ApplyStep(data)
    /\ UNCHANGED <<snap, sink, deductions, snapshots, appliedSince>>
    /\ UNCHANGED <<concOnly, heap, kept>>

\* Server.Apply takes the response off the future and returns to its caller.
Return ==
    /\ call # Idle
    /\ call' = Idle
    /\ UNCHANGED <<store, snap, sink, deductions, snapshots, appliedSince>>
    /\ UNCHANGED <<concOnly, heap, kept>>

Next == ApplyLog \/ Return

Spec == Init /\ [][Next]_vars

\* ---------------------------------------- the ledger of deductions (C6)

\* Some filament has less left after the call than before it.
Lowered(before, after) ==
    \E f \in DOMAIN before.filaments \cap DOMAIN after.filaments :
        after.filaments[f].RemainingWeightInGrams
            < before.filaments[f].RemainingWeightInGrams

\* The id a command addresses, as its handler decodes it.
CommandID(cmd) ==
    IF cmd.op = OpDelete THEN DecodeID(cmd.payload).v
    ELSE Field(ObjectOf(cmd.payload).obj, "id", "")

\* The call c, which left the store `after`, lowered a filament for job j.
DeductedFor(c, after, j) ==
    /\ c.cmd.entity_type = EntityPrintJob
    /\ CommandID(c.cmd) = j
    /\ Lowered(c.before, after)

\* ApplyLog with the ledger kept: a job id starts at 0 when it enters the
\* store, and leaves the ledger when it is deleted.
LedgerApply ==
    /\ call = Idle
    /\ \E data \in Commands : ApplyStep(data)
    /\ deductions' =
         [j \in DOMAIN store'.printJobs |->
            LET sofar == IF j \in DOMAIN deductions THEN deductions[j] ELSE 0 IN
            IF DeductedFor(call', store', j) /\ sofar < MaxDeductions
            THEN sofar + 1 ELSE sofar]
    /\ UNCHANGED <<snap, sink, snapshots, appliedSince>>
    /\ UNCHANGED <<concOnly, heap, kept>>

NextLedger == LedgerApply \/ Return

SpecLedger == Init /\ [][NextLedger]_vars

\* ------------------------------------------- snapshots and restarts

\* A log entry is applied and its response consumed.
ApplyCommitted ==
    /\ call = Idle
    /\ snapshots = 0 \/ appliedSince < MaxAppliedSince
    /\ \E data \in Commands : store' = Apply(store, data).store
    /\ appliedSince' = IF snapshots = 0 THEN 0 ELSE appliedSince + 1
    /\ UNCHANGED <<call, snap, sink, deductions, snapshots>>
    /\ UNCHANGED <<concOnly, heap, kept>>

\* The consensus engine asks the FSM for a snapshot.  `at` remembers the store
\* the snapshot was taken of.
TakeSnapshot ==
    /\ call = Idle
    /\ snapshots < MaxSnapshots
    /\ snap' = [taken |-> TRUE, obj |-> Snapshot(store), at |-> store]
    /\ call' = [name |-> "Snapshot", res |-> Nil]
    /\ snapshots' = snapshots + 1
    /\ UNCHANGED <<store, sink, deductions, appliedSince>>
    /\ UNCHANGED <<concOnly, heap, kept>>

\* Snapshot.Persist: marshal, write to the sink, close it.  A sink that fails
\* to take the bytes is cancelled and keeps nothing of them.
Persist ==
    /\ call = Idle
    /\ snap.taken
    /\ \E written \in BOOLEAN :
        IF written
        THEN /\ sink' = [written |-> TRUE, bytes |-> MarshalSnapshot(snap.obj),
                         at |-> snap.at]
             /\ call' = [name |-> "Persist", res |-> Nil]
        ELSE /\ sink' = sink
             /\ call' = [name |-> "Persist", res |-> "failed to write snapshot"]
    /\ UNCHANGED <<store, snap, deductions, snapshots, appliedSince>>
    /\ UNCHANGED <<concOnly, heap, kept>>

\* A persisted snapshot damaged in its last member: PrintJobs holds a string
\* where the decoder expects an object, after two members it could decode.
Corrupt(bytes) == Obj([bytes.obj EXCEPT !.PrintJobs = Str("x")])

\* The byte streams Restore is handed: a persisted snapshot, the same damaged,
\* or bytes that are not JSON.
Streams ==
    (IF sink.written THEN {sink.bytes, Corrupt(sink.bytes)} ELSE {}) \cup {Invalid}

\* The consensus engine restores the FSM from a snapshot.
RestoreCall ==
    /\ call = Idle
    /\ \E stream \in Streams :
        LET r == Restore(store, stream) IN
        /\ store' = r.store
        /\ call' = [name |-> "Restore", stream |-> stream, before |-> store,
                    res |-> r.res]
    /\ UNCHANGED <<snap, sink, deductions, snapshots, appliedSince>>
    /\ UNCHANGED <<concOnly, heap, kept>>

\* The process restarts: NewFSM builds an empty store, the Snapshot object in
\* memory is gone, what the sink holds stays.
NewFSM ==
    /\ call = Idle
    /\ sink.written
    /\ store # NewStore
    /\ store' = NewStore
    /\ snap' = NoSnapshot
    /\ UNCHANGED <<call, sink, deductions, snapshots, appliedSince>>
    /\ UNCHANGED <<concOnly, heap, kept>>

NextSnap == ApplyCommitted \/ TakeSnapshot \/ Persist \/ RestoreCall \/ NewFSM \/ Return

SpecSnap == Init /\ [][NextSnap]_vars

\* ------------------------------------------------------ concurrent calls

\* Store.mu, a sync.RWMutex.
\* Lock granted while readers hold the lock.
Lock_ignoresReaders(p) == writer = 0 /\ writer' = p /\ UNCHANGED readers

Lock(p) == writer = 0 /\ readers = {} /\ writer' = p /\ UNCHANGED readers

Unlock(p) == writer = p /\ writer' = 0 /\ UNCHANGED readers

\* RLock granted while a writer holds the lock.
RLock_ignoresWriter(p) == readers' = readers \cup {p} /\ UNCHANGED writer

RLock(p) == writer = 0 /\ readers' = readers \cup {p} /\ UNCHANGED writer

RUnlock(p) == p \in readers /\ readers' = readers \ {p} /\ UNCHANGED writer

\* The store after a log, entry by entry, from the empty store.
RECURSIVE ApplyAll(_, _)
ApplyAll(st, log) ==
    IF log = <<>> THEN st ELSE ApplyAll(Apply(st, Head(log)).store, Tail(log))

CreateP1 == Cmd(OpCreate, EntityPrinter, Obj([id |-> "p1", company |-> "Prusa", model |-> "MK3"]))
CreateF1 == Cmd(OpCreate, EntityFilament, FilamentObj("f1", "PLA", "Red", 2, 2))
CreateJ1 == Cmd(OpCreate, EntityPrintJob, PrintJobObj("j1", "p1", "f1", "a.gcode", 1))
SetStatus(id, status) == Cmd(OpUpdate, EntityPrintJob, Obj([id |-> id, status |-> status]))

\* The stores the concurrent calls start from, each by the log that builds it.
Prepared ==
    {ApplyAll(NewStore, log) :
        log \in {<<>>,
                 <<CreateP1, CreateF1>>,
                 <<CreateP1, CreateF1, CreateJ1, SetStatus("j1", StatusRunning)>>}}

\* The log entries applied concurrently with other calls.
ConcCommands ==
    {CreateJ1, SetStatus("j1", StatusRunning), SetStatus("j1", StatusDone),
     SetStatus("j1", StatusCancelled), Cmd(OpDelete, EntityFilament, Str("f1")), Invalid}

\* The streams restored concurrently with other calls: what Persist writes for
\* a snapshot of a prepared store, or bytes that are not JSON.
ConcStreams == {MarshalSnapshot(Snapshot(st)) : st \in Prepared} \cup {Invalid}

\* The read accessors of the Store.
Reads ==
    {[fn |-> "GetPrinters"], [fn |-> "GetPrinter", id |-> "p1"],
     [fn |-> "GetFilaments"], [fn |-> "GetFilament", id |-> "f1"],
     [fn |-> "GetPrintJobs"], [fn |-> "GetPrintJob", id |-> "j1"]}

\* What an enumerate-all accessor returns: the records, in no order.
All(m) == [found |-> TRUE, records |-> {m[k] : k \in DOMAIN m}]

\* What a get-by-id accessor returns.
Get(m, id) ==
    IF id \in DOMAIN m THEN [found |-> TRUE, records |-> {m[id]}]
    ELSE [found |-> FALSE, records |-> {}]

ReadResult(st, r) ==
    IF r.fn = "GetPrinters" THEN All(st.printers)
    ELSE IF r.fn = "GetPrinter" THEN Get(st.printers, r.id)
    ELSE IF r.fn = "GetFilaments" THEN All(st.filaments)
    ELSE IF r.fn = "GetFilament" THEN Get(st.filaments, r.id)
    ELSE IF r.fn = "GetPrintJobs" THEN All(st.printJobs)
    ELSE Get(st.printJobs, r.id)

InitConc ==
    /\ store \in Prepared
    /\ call = Idle
    /\ snap = NoSnapshot
    /\ sink = NoBytes
    /\ deductions = EmptyMap
    /\ snapshots = 0
    /\ appliedSince = 0
    /\ procs = [p \in Procs |-> Fresh]
    /\ writer = 0
    /\ readers = {}
    /\ heap = NewHeap
    /\ kept = NoLog
    /\ cluster = NewCluster

MayCall(p) == procs[p].pc = "idle" /\ procs[p].calls < MaxCalls

\* Goroutine p starts a call: its locals are those of the new call.
Started(p, pc, name, arg) ==
    [pc |-> pc, calls |-> procs[p].calls + 1, name |-> name, arg |-> arg]

\* Goroutine p moves on within its call.
Goto(p, pc) == procs' = [procs EXCEPT ![p].pc = pc]

\* FSM.Apply, up to the lock: an entry that does not unmarshal is answered at
\* once.
StartApply(p) ==
    /\ MayCall(p)
    /\ \E data \in ConcCommands :
        procs' = [procs EXCEPT ![p] =
            IF ObjectOf(data).err
            THEN Started(p, "idle", "Apply", data)
                    @@ [res |-> "failed to unmarshal command"]
            ELSE Started(p, "ApplyLock", "Apply", data)]
    /\ UNCHANGED <<store, sink, writer, readers, seqOnly, heap, kept>>

ApplyAcquire(p) ==
    /\ procs[p].pc = "ApplyLock"
    /\ Lock(p)
    /\ procs' = [procs EXCEPT ![p] = [pc |-> "ApplyBody", before |-> store] @@ @]
    /\ UNCHANGED <<store, sink, seqOnly, heap, kept>>

\* The handler of an Update that sets a job Done writes twice: the filament,
\* then the job.
WritesTwice(st, data) ==
    LET cmd == DecodeCommand(data) IN
    /\ Apply(st, data).res = Nil
    /\ cmd.entity_type = EntityPrintJob
    /\ cmd.op = OpUpdate
    /\ DecodeStatusChange(cmd.payload).v.Status = StatusDone

\* The handler runs up to and including its first write.
ApplyBody(p) ==
    /\ procs[p].pc = "ApplyBody"
    /\ LET data == procs[p].arg
           change == DecodeStatusChange(DecodeCommand(data).payload).v
       IN
       IF WritesTwice(store, data)
       THEN /\ store' = deductFilament(store, store.printJobs[change.ID])
            /\ Goto(p, "ApplyStatus")
       ELSE /\ store' = Apply(store, data).store
            /\ procs' = [procs EXCEPT ![p] =
                    [pc |-> "ApplyUnlock", res |-> Apply(store, data).res] @@ @]
    /\ UNCHANGED <<sink, writer, readers, seqOnly, heap, kept>>

\* printJob.Status = statusChange.Status, and return nil.
ApplyStatus(p) ==
    /\ procs[p].pc = "ApplyStatus"
    /\ LET change == DecodeStatusChange(DecodeCommand(procs[p].arg).payload).v IN
       store' = setStatus(store, change.ID, change.Status)
    /\ procs' = [procs EXCEPT ![p] = [pc |-> "ApplyUnlock", res |-> Nil] @@ @]
    /\ UNCHANGED <<sink, writer, readers, seqOnly, heap, kept>>

\* The deferred Unlock of FSM.Apply skipped when the handler returned an error.
ApplyRelease_keepsOnError(p) ==
    /\ procs[p].pc = "ApplyUnlock"
    /\ IF procs[p].res = Nil THEN Unlock(p) ELSE UNCHANGED <<writer, readers>>
    /\ Goto(p, "idle")
    /\ UNCHANGED <<store, sink, seqOnly, heap, kept>>

ApplyRelease(p) ==
    /\ procs[p].pc = "ApplyUnlock"
    /\ Unlock(p)
    /\ Goto(p, "idle")
    /\ UNCHANGED <<store, sink, seqOnly, heap, kept>>

\* FSM.Restore, up to the lock: a stream that does not decode is answered at
\* once.
StartRestore(p) ==
    /\ MayCall(p)
    /\ \E stream \in ConcStreams :
        LET d == DecodeSnapshot(stream) IN
        procs' = [procs EXCEPT ![p] =
            IF d.err
            THEN Started(p, "idle", "Restore", stream)
                    @@ [res |-> "failed to decode snapshot"]
            ELSE Started(p, "RestoreLock", "Restore", stream) @@ [snapshot |-> d.v]]
    /\ UNCHANGED <<store, sink, writer, readers, seqOnly, heap, kept>>

RestoreAcquire(p) ==
    /\ procs[p].pc = "RestoreLock"
    /\ Lock(p)
    /\ procs' = [procs EXCEPT ![p] = [pc |-> "RestorePrinters", before |-> store] @@ @]
    /\ UNCHANGED <<store, sink, seqOnly, heap, kept>>

RestorePrinters(p) ==
    /\ procs[p].pc = "RestorePrinters"
    /\ store' = restorePrinters(store, procs[p].snapshot)
    /\ Goto(p, "RestoreFilaments")
    /\ UNCHANGED <<sink, writer, readers, seqOnly, heap, kept>>

RestoreFilaments(p) ==
    /\ procs[p].pc = "RestoreFilaments"
    /\ store' = restoreFilaments(store, procs[p].snapshot)
    /\ Goto(p, "RestorePrintJobs")
    /\ UNCHANGED <<sink, writer, readers, seqOnly, heap, kept>>

RestorePrintJobs(p) ==
    /\ procs[p].pc = "RestorePrintJobs"
    /\ store' = restorePrintJobs(store, procs[p].snapshot)
    /\ procs' = [procs EXCEPT ![p] = [pc |-> "RestoreUnlock", res |-> Nil] @@ @]
    /\ UNCHANGED <<sink, writer, readers, seqOnly, heap, kept>>

RestoreRelease(p) ==
    /\ procs[p].pc = "RestoreUnlock"
    /\ Unlock(p)
    /\ Goto(p, "idle")
    /\ UNCHANGED <<store, sink, seqOnly, heap, kept>>

\* FSM.Snapshot: the three copy loops run under the read lock.
StartSnapshot(p) ==
    /\ MayCall(p)
    /\ procs' = [procs EXCEPT ![p] = Started(p, "SnapshotRLock", "Snapshot", Null)]
    /\ UNCHANGED <<store, sink, writer, readers, seqOnly, heap, kept>>

SnapshotAcquire(p) ==
    /\ procs[p].pc = "SnapshotRLock"
    /\ RLock(p)
    /\ Goto(p, "SnapshotPrinters")
    /\ UNCHANGED <<store, sink, seqOnly, heap, kept>>

SnapshotPrinters(p) ==
    /\ procs[p].pc = "SnapshotPrinters"
    /\ procs' = [procs EXCEPT ![p] =
            [pc |-> "SnapshotFilaments", printers |-> Snapshot(store).Printers] @@ @]
    /\ UNCHANGED <<store, sink, writer, readers, seqOnly, heap, kept>>

SnapshotFilaments(p) ==
    /\ procs[p].pc = "SnapshotFilaments"
    /\ procs' = [procs EXCEPT ![p] =
            [pc |-> "SnapshotPrintJobs", filaments |-> Snapshot(store).Filaments] @@ @]
    /\ UNCHANGED <<store, sink, writer, readers, seqOnly, heap, kept>>

SnapshotPrintJobs(p) ==
    /\ procs[p].pc = "SnapshotPrintJobs"
    /\ procs' = [procs EXCEPT ![p] =
            [pc |-> "SnapshotRUnlock", printJobs |-> Snapshot(store).PrintJobs,
             res |-> Nil] @@ @]
    /\ UNCHANGED <<store, sink, writer, readers, seqOnly, heap, kept>>

SnapshotRelease(p) ==
    /\ procs[p].pc = "SnapshotRUnlock"
    /\ RUnlock(p)
    /\ Goto(p, "idle")
    /\ UNCHANGED <<store, sink, seqOnly, heap, kept>>

\* A read accessor of the Store.
StartRead(p) ==
    /\ MayCall(p)
    /\ \E r \in Reads :
        procs' = [procs EXCEPT ![p] = Started(p, "ReadRLock", r.fn, r)]
    /\ UNCHANGED <<store, sink, writer, readers, seqOnly, heap, kept>>

ReadAcquire(p) ==
    /\ procs[p].pc = "ReadRLock"
    /\ RLock(p)
    /\ Goto(p, "Read")
    /\ UNCHANGED <<store, sink, seqOnly, heap, kept>>

Read(p) ==
    /\ procs[p].pc = "Read"
    /\ procs' = [procs EXCEPT ![p] =
            [pc |-> "ReadRUnlock", res |-> ReadResult(store, procs[p].arg)] @@ @]
    /\ UNCHANGED <<store, sink, writer, readers, seqOnly, heap, kept>>

ReadRelease(p) ==
    /\ procs[p].pc = "ReadRUnlock"
    /\ RUnlock(p)
    /\ Goto(p, "idle")
    /\ UNCHANGED <<store, sink, seqOnly, heap, kept>>

NextConc ==
    \E p \in Procs :
        \/ StartApply(p) \/ ApplyAcquire(p) \/ ApplyBody(p) \/ ApplyStatus(p)
        \/ ApplyRelease(p)
        \/ StartRestore(p) \/ RestoreAcquire(p) \/ RestorePrinters(p)
        \/ RestoreFilaments(p) \/ RestorePrintJobs(p) \/ RestoreRelease(p)
        \/ StartSnapshot(p) \/ SnapshotAcquire(p) \/ SnapshotPrinters(p)
        \/ SnapshotFilaments(p) \/ SnapshotPrintJobs(p) \/ SnapshotRelease(p)
        \/ StartRead(p) \/ ReadAcquire(p) \/ Read(p) \/ ReadRelease(p)

SpecConc == InitConc /\ [][NextConc]_vars

\* A call waiting for the lock gets it.
Acquire(p) ==
    ApplyAcquire(p) \/ RestoreAcquire(p) \/ SnapshotAcquire(p) \/ ReadAcquire(p)

\* A call that holds the lock runs on, up to and including the release.
Proceed(p) ==
    \/ ApplyBody(p) \/ ApplyStatus(p) \/ ApplyRelease(p)
    \/ RestorePrinters(p) \/ RestoreFilaments(p) \/ RestorePrintJobs(p)
    \/ RestoreRelease(p)
    \/ SnapshotPrinters(p) \/ SnapshotFilaments(p) \/ SnapshotPrintJobs(p)
    \/ SnapshotRelease(p)
    \/ Read(p) \/ ReadRelease(p)

\* The scheduler runs every goroutine that can run, and sync.RWMutex hands the
\* lock to a goroutine that finds it free again and again: a blocked Lock keeps
\* new readers out, and a blocked RLock is woken by the Unlock it waits for.
\* Nothing obliges a caller to start a call.
FairConc == \A p \in Procs : WF_vars(Proceed(p)) /\ SF_vars(Acquire(p))

\* The fair behaviours are those of calls on a store that holds a printer and a
\* filament: the calls themselves create the job and run it to its end.
InitFair ==
    /\ InitConc
    /\ store = ApplyAll(NewStore, <<CreateP1, CreateF1>>)

SpecConcFair == InitFair /\ [][NextConc]_vars /\ FairConc

\* -------------------------------------------------- records behind pointers

\* The records a map of pointers leads to.
Records(h, m) == [k \in DOMAIN m |-> h.mem[m[k]]]

\* The printers, filaments and print jobs a Store holds, by value.
StoreOf(h) ==
    [printers |-> Records(h, h.printers),
     filaments |-> Records(h, h.filaments),
     printJobs |-> Records(h, h.printJobs)]

\* The map of the Store an entity type is kept in.
Collection(entity) ==
    IF entity = EntityPrinter THEN "printers"
    ELSE IF entity = EntityFilament THEN "filaments"
    ELSE "printJobs"

\* The id in the payload of a Create or of an Update that replaces the record.
PayloadID(cmd) ==
    IF cmd.entity_type = EntityPrinter THEN DecodePrinter(cmd.payload).v.ID
    ELSE IF cmd.entity_type = EntityFilament THEN DecodeFilament(cmd.payload).v.ID
    ELSE DecodePrintJob(cmd.payload).v.ID

\* f.store.<collection>[record.ID] = &record: the local escapes to a new
\* address and the map entry points at it; a record the entry pointed at
\* before stays where it was.
Insert(h, coll, rec) ==
    [h EXCEPT !.mem = Append(@, rec), ![coll] = MapPut(@, rec.ID, Len(h.mem) + 1)]

\* Whether a log entry is an Update of a print job, and to Done.
IsStatusChange(cmd) == cmd.entity_type = EntityPrintJob /\ cmd.op = OpUpdate

IsDone(cmd) == IsStatusChange(cmd) /\ DecodeStatusChange(cmd.payload).v.Status = StatusDone

\* The first write of a log entry Apply accepts: a map entry set or deleted,
\* or for an Update of a print job a field written through the stored pointer
\* (to Done: the subtraction, before the clamp and before the status).
FirstWrite(h, data) ==
    LET cmd == DecodeCommand(data)
        coll == Collection(cmd.entity_type)
        after == Apply(StoreOf(h), data).store
    IN
    IF cmd.op = OpDelete THEN [h EXCEPT ![coll] = MapDelete(@, DecodeID(cmd.payload).v)]
    ELSE IF IsStatusChange(cmd)
    THEN LET change == DecodeStatusChange(cmd.payload).v
             printJob == h.mem[h.printJobs[change.ID]]
         IN
         IF change.Status = StatusDone
         THEN [h EXCEPT !.mem[h.filaments[printJob.FilamentID]].RemainingWeightInGrams =
                            @ - printJob.PrintWeightInGrams]
         ELSE [h EXCEPT !.mem[h.printJobs[change.ID]].Status = change.Status]
    ELSE Insert(h, coll, after[coll][PayloadID(cmd)])

\* if filament.RemainingWeightInGrams < 0 { filament.RemainingWeightInGrams = 0 }
Clamp(h, data) ==
    LET change == DecodeStatusChange(DecodeCommand(data).payload).v
        filament == h.filaments[h.mem[h.printJobs[change.ID]].FilamentID]
    IN
    IF h.mem[filament].RemainingWeightInGrams < 0
    THEN [h EXCEPT !.mem[filament].RemainingWeightInGrams = 0]
    ELSE h

\* printJob.Status = statusChange.Status, after the deduction.
WriteStatus(h, data) ==
    LET change == DecodeStatusChange(DecodeCommand(data).payload).v IN
    [h EXCEPT !.mem[h.printJobs[change.ID]].Status = change.Status]

\* FSM.Apply on the Store as Go holds it.
HeapApply(h, data) ==
    IF Apply(StoreOf(h), data).res # Nil THEN h
    ELSE IF IsDone(DecodeCommand(data))
    THEN WriteStatus(Clamp(FirstWrite(h, data), data), data)
    ELSE FirstWrite(h, data)

RECURSIVE HeapApplyAll(_, _)
HeapApplyAll(h, log) ==
    IF log = <<>> THEN h ELSE HeapApplyAll(HeapApply(h, Head(log)), Tail(log))

\* One new record per entry of a map of records, and the map of their
\* addresses, added to `done`.
RECURSIVE AllocAll(_, _, _)
AllocAll(h, values, done) ==
    IF DOMAIN done = DOMAIN values THEN [heap |-> h, map |-> done]
    ELSE LET k == CHOOSE k \in DOMAIN values \ DOMAIN done : TRUE IN
         AllocAll([h EXCEPT !.mem = Append(@, values[k])], values,
                  MapPut(done, k, Len(h.mem) + 1))

\* HeapSnapshot handing out the stored pointers.
HeapSnapshot_alias(h) ==
    [heap |-> h,
     obj |-> [Printers |-> h.printers, Filaments |-> h.filaments, PrintJobs |-> h.printJobs]]

\* FSM.Snapshot on the Store as Go holds it: `printer := *v` copies the record
\* and `&printer` is a new address, for every entry of the three maps.
HeapSnapshot(h) ==
    LET ps == AllocAll(h, Records(h, h.printers), EmptyMap)
        fs == AllocAll(ps.heap, Records(h, h.filaments), EmptyMap)
        js == AllocAll(fs.heap, Records(h, h.printJobs), EmptyMap)
    IN
    [heap |-> js.heap,
     obj |-> [Printers |-> ps.map, Filaments |-> fs.map, PrintJobs |-> js.map]]

\* What a Snapshot object holds, by value.
Contents(h, obj) ==
    [Printers |-> Records(h, obj.Printers),
     Filaments |-> Records(h, obj.Filaments),
     PrintJobs |-> Records(h, obj.PrintJobs)]

\* FSM.Restore on the Store as Go holds it: the decoder allocates every record
\* of the snapshot, and the three maps of the Store are replaced by its maps.
HeapRestore(h, stream) ==
    LET d == DecodeSnapshot(stream)
        ps == AllocAll(h, d.v.Printers, EmptyMap)
        fs == AllocAll(ps.heap, d.v.Filaments, EmptyMap)
        js == AllocAll(fs.heap, d.v.PrintJobs, EmptyMap)
    IN
    IF d.err THEN h
    ELSE [js.heap EXCEPT !.printers = ps.map, !.filaments = fs.map, !.printJobs = js.map]

\* The pointers an accessor returns: every value of a map, or the one under
\* an id.
Pointers(h, r) ==
    LET m == h[Collection(IF r.fn \in {"GetPrinters", "GetPrinter"} THEN EntityPrinter
                          ELSE IF r.fn \in {"GetFilaments", "GetFilament"} THEN EntityFilament
                          ELSE EntityPrintJob)]
    IN
    IF "id" \in DOMAIN r
    THEN IF r.id \in DOMAIN m THEN {m[r.id]} ELSE {}
    ELSE {m[k] : k \in DOMAIN m}

\* What is read through a set of pointers: the record at each address.
Through(h, ptrs) == [a \in ptrs |-> h.mem[a]]

\* ------------------------------------- concurrent calls, pointers and all

CreateJ1Heavy == Cmd(OpCreate, EntityPrintJob, PrintJobObj("j1", "p1", "f1", "a.gcode", 2))
LowerF1 == Cmd(OpUpdate, EntityFilament, FilamentObj("f1", "PLA", "Red", 2, 1))

\* The logs that build the Stores the calls start from: a running job, and a
\* running job heavier than what its filament has left.
AliasLogs ==
    {<<CreateP1, CreateF1, CreateJ1, SetStatus("j1", StatusRunning)>>,
     <<CreateP1, CreateF1, CreateJ1Heavy, LowerF1, SetStatus("j1", StatusRunning)>>}

\* The log entries applied while accessors and snapshots are in use.
AliasCommands ==
    {SetStatus("j1", StatusDone), SetStatus("j1", StatusCancelled),
     SetStatus("j1", StatusQueued), CreateF1, CreateJ1,
     Cmd(OpDelete, EntityPrintJob, Str("j1"))}

AliasStreams == {MarshalSnapshot(Snapshot(st)) : st \in Prepared}

InitAlias ==
    /\ store = NewStore
    /\ call = Idle
    /\ snap = NoSnapshot
    /\ sink = NoBytes
    /\ deductions = EmptyMap
    /\ snapshots = 0
    /\ appliedSince = 0
    /\ procs = [p \in Procs |-> Fresh]
    /\ writer = 0
    /\ readers = {}
    /\ heap \in {HeapApplyAll(NewHeap, log) : log \in AliasLogs}
    /\ kept = NoLog
    /\ cluster = NewCluster

\* FSM.Apply: the entry unmarshals and the lock is taken.
AliasApplyAcquire(p) ==
    /\ MayCall(p)
    /\ Lock(p)
    /\ \E data \in AliasCommands :
        procs' = [procs EXCEPT ![p] =
            Started(p, "FirstWrite", "Apply", data) @@ [before |-> heap]]
    /\ UNCHANGED <<store, sink, seqOnly, heap, kept>>

\* The handler runs up to its first write, or to the error it returns.
AliasFirstWrite(p) ==
    /\ procs[p].pc = "FirstWrite"
    /\ LET data == procs[p].arg
           res == Apply(StoreOf(heap), data).res
       IN
       IF res # Nil
       THEN /\ procs' = [procs EXCEPT ![p] = [pc |-> "Unlock", res |-> res] @@ @]
            /\ UNCHANGED heap
       ELSE /\ heap' = FirstWrite(heap, data)
            /\ procs' = [procs EXCEPT ![p] =
                    [pc |-> IF IsDone(DecodeCommand(data)) THEN "Clamp" ELSE "Unlock",
                     res |-> Nil] @@ @]
    /\ UNCHANGED <<store, sink, writer, readers, seqOnly, kept>>

AliasClamp(p) ==
    /\ procs[p].pc = "Clamp"
    /\ heap' = Clamp(heap, procs[p].arg)
    /\ Goto(p, "WriteStatus")
    /\ UNCHANGED <<store, sink, writer, readers, seqOnly, kept>>

AliasWriteStatus(p) ==
    /\ procs[p].pc = "WriteStatus"
    /\ heap' = WriteStatus(heap, procs[p].arg)
    /\ Goto(p, "Unlock")
    /\ UNCHANGED <<store, sink, writer, readers, seqOnly, kept>>

\* The deferred Unlock of Apply and of Restore.
AliasUnlock(p) ==
    /\ procs[p].pc = "Unlock"
    /\ Unlock(p)
    /\ Goto(p, "idle")
    /\ UNCHANGED <<store, sink, seqOnly, heap, kept>>

\* FSM.Restore: the stream decodes and the lock is taken.
AliasRestoreAcquire(p) ==
    /\ MayCall(p)
    /\ Lock(p)
    /\ \E stream \in AliasStreams :
        procs' = [procs EXCEPT ![p] = Started(p, "Assign", "Restore", stream)]
    /\ UNCHANGED <<store, sink, seqOnly, heap, kept>>

AliasRestoreAssign(p) ==
    /\ procs[p].pc = "Assign"
    /\ heap' = HeapRestore(heap, procs[p].arg)
    /\ procs' = [procs EXCEPT ![p] = [pc |-> "Unlock", res |-> Nil] @@ @]
    /\ UNCHANGED <<store, sink, writer, readers, seqOnly, kept>>

\* A read accessor: under the read lock it collects the pointers it returns.
AliasReadAcquire(p) ==
    /\ MayCall(p)
    /\ RLock(p)
    /\ \E r \in Reads :
        procs' = [procs EXCEPT ![p] =
            Started(p, "Return", r.fn, r) @@ [ptrs |-> Pointers(heap, r)]]
    /\ UNCHANGED <<store, sink, seqOnly, heap, kept>>

\* The accessor returns; `returned` is what its pointers led to at that moment.
AliasReadReturn(p) ==
    /\ procs[p].pc = "Return"
    /\ RUnlock(p)
    /\ procs' = [procs EXCEPT ![p] =
            [pc |-> "Encode", returned |-> Through(heap, procs[p].ptrs)] @@ @]
    /\ UNCHANGED <<store, sink, seqOnly, heap, kept>>

\* The caller of the accessor reads the records through the pointers, as
\* json.NewEncoder(w).Encode(filament) of the HTTP handlers does.
AliasEncode(p) ==
    /\ procs[p].pc = "Encode"
    /\ procs' = [procs EXCEPT ![p] =
            [pc |-> "idle", seen |-> Through(heap, procs[p].ptrs)] @@ @]
    /\ UNCHANGED <<store, sink, writer, readers, seqOnly, heap, kept>>

AliasSnapshotAcquire(p) ==
    /\ MayCall(p)
    /\ RLock(p)
    /\ procs' = [procs EXCEPT ![p] = Started(p, "Copy", "Snapshot", Null)]
    /\ UNCHANGED <<store, sink, seqOnly, heap, kept>>

\* The three copy loops of FSM.Snapshot.
AliasSnapshotCopy(p) ==
    /\ procs[p].pc = "Copy"
    /\ heap' = HeapSnapshot(heap).heap
    /\ procs' = [procs EXCEPT ![p] =
            [pc |-> "SnapshotReturn", obj |-> HeapSnapshot(heap).obj] @@ @]
    /\ UNCHANGED <<store, sink, writer, readers, seqOnly, kept>>

\* Snapshot returns; `returned` is what the Snapshot object held at that moment.
AliasSnapshotReturn(p) ==
    /\ procs[p].pc = "SnapshotReturn"
    /\ RUnlock(p)
    /\ procs' = [procs EXCEPT ![p] =
            [pc |-> "Persist", returned |-> Contents(heap, procs[p].obj)] @@ @]
    /\ UNCHANGED <<store, sink, seqOnly, heap, kept>>

\* Snapshot.Persist marshals what the Snapshot object holds by then.
AliasPersist(p) ==
    /\ procs[p].pc = "Persist"
    /\ procs' = [procs EXCEPT ![p] =
            [pc |-> "idle", bytes |-> MarshalSnapshot(Contents(heap, procs[p].obj))] @@ @]
    /\ UNCHANGED <<store, sink, writer, readers, seqOnly, heap, kept>>

NextAlias ==
    \E p \in Procs :
        \/ AliasApplyAcquire(p) \/ AliasFirstWrite(p) \/ AliasClamp(p)
        \/ AliasWriteStatus(p) \/ AliasUnlock(p)
        \/ AliasRestoreAcquire(p) \/ AliasRestoreAssign(p)
        \/ AliasReadAcquire(p) \/ AliasReadReturn(p) \/ AliasEncode(p)
        \/ AliasSnapshotAcquire(p) \/ AliasSnapshotCopy(p) \/ AliasSnapshotReturn(p)
        \/ AliasPersist(p)

SpecAlias == InitAlias /\ [][NextAlias]_vars

\* ------------------------------------------- the log without its rejections

\* Log entries applied in one behaviour on top of the log it starts from.
MaxReplay == 2

\* The logs a behaviour starts from; Apply accepts every entry of them.
ReplayLogs ==
    {<<>>,
     <<CreateP1, CreateF1>>,
     <<CreateP1, CreateF1, CreateJ1, SetStatus("j1", StatusRunning)>>}

InitReplay ==
    /\ call = Idle
    /\ snap = NoSnapshot
    /\ sink = NoBytes
    /\ deductions = EmptyMap
    /\ snapshots = 0
    /\ appliedSince = 0
    /\ procs = [p \in Procs |-> Fresh]
    /\ writer = 0
    /\ readers = {}
    /\ heap = NewHeap
    /\ cluster = NewCluster
    /\ \E log \in ReplayLogs :
        /\ store = ApplyAll(NewStore, log)
        /\ kept = [log |-> log, base |-> Len(log), n |-> 0, res |-> Nil]

\* The consensus engine delivers the next log entry: Apply answers it, and the
\* entry is kept if the answer is nil.
ReplayApply ==
    /\ kept.n < MaxReplay
    /\ \E data \in Commands :
        LET r == Apply(store, data) IN
        /\ store' = r.store
        /\ kept' = [log |-> IF r.res = Nil THEN Append(kept.log, data) ELSE kept.log,
                    base |-> kept.base, n |-> kept.n + 1, res |-> r.res]
    /\ UNCHANGED <<sink, seqOnly, concOnly, heap>>

NextReplay == ReplayApply

SpecReplay == InitReplay /\ [][NextReplay]_vars

\* ------------------------------------------------ a store with nil in it

\* What the runtime answers a write to a nil map or a read through a nil
\* pointer with: the goroutine, and with it the process, dies.
Panic == "panic"

Collections == {"printers", "filaments", "printJobs"}

\* The store as lookups see it: a nil map has no key.
AsRead(st) == [c \in Collections |-> IF st[c] = NilPointer THEN EmptyMap ELSE st[c]]

\* Whether the handler of a command reads a field through a stored pointer
\* that is nil: Create PrintJob reads the filament it found, Update PrintJob
\* the job it found and, to Done, the filament of that job.
DerefsNil(st, cmd) ==
    LET v == AsRead(st) IN
    IF cmd.entity_type = EntityPrintJob /\ cmd.op = OpCreate
    THEN LET d == DecodePrintJob(cmd.payload)
             printJob == [d.v EXCEPT !.Status = StatusQueued]
         IN
         /\ ~d.err
         /\ PrintJobValidate(printJob) = Nil
         /\ printJob.PrinterID \in DOMAIN v.printers
         /\ printJob.FilamentID \in DOMAIN v.filaments
         /\ v.filaments[printJob.FilamentID] = NilPointer
    ELSE IF cmd.entity_type = EntityPrintJob /\ cmd.op = OpUpdate
    THEN LET d == DecodeStatusChange(cmd.payload) IN
         /\ ~d.err
         /\ d.v.ID \in DOMAIN v.printJobs
         /\ \/ v.printJobs[d.v.ID] = NilPointer
            \/ /\ ValidateTransition(v.printJobs[d.v.ID], d.v.Status) = Nil
               /\ d.v.Status = StatusDone
               /\ v.printJobs[d.v.ID].FilamentID \in DOMAIN v.filaments
               /\ v.filaments[v.printJobs[d.v.ID].FilamentID] = NilPointer
    ELSE FALSE

\* Whether a command the handler accepts sets an entry of a map that is nil:
\* only a Create can, an Update found its key in the map.
WritesNilMap(st, cmd) ==
    /\ cmd.op = OpCreate
    /\ cmd.entity_type \in {EntityPrinter, EntityFilament, EntityPrintJob}
    /\ st[Collection(cmd.entity_type)] = NilPointer

\* FSM.Apply on a store that Restore may have left with nil maps or nil
\* pointers in it.
ApplyRestored(st, data) ==
    LET cmd == DecodeCommand(data)
        r == Apply(AsRead(st), data)
    IN
    IF ObjectOf(data).err THEN Ret("failed to unmarshal command", st)
    ELSE IF DerefsNil(st, cmd) THEN Ret(Panic, st)
    ELSE IF r.res # Nil THEN Ret(r.res, st)
    ELSE IF WritesNilMap(st, cmd) THEN Ret(Panic, st)
    ELSE Ret(Nil, [c \in Collections |->
                      IF st[c] = NilPointer THEN NilPointer ELSE r.store[c]])

\* FSM.Snapshot on such a store: `printer := *v` reads through every stored
\* pointer; ranging over a nil map copies nothing into the new map.
SnapshotRestored(st) ==
    IF \E c \in Collections : \E k \in DOMAIN AsRead(st)[c] : st[c][k] = NilPointer
    THEN [res |-> Panic, obj |-> Snapshot(NewStore)]
    ELSE [res |-> Nil, obj |-> Snapshot(AsRead(st))]

\* A snapshot stream without its Filaments member, one with a null in place of
\* a record, and one that is the JSON value null.
WithoutFilaments(bytes) ==
    Obj([k \in DOMAIN bytes.obj \ {"Filaments"} |-> bytes.obj[k]])

WithNullRecord(bytes, name, id) ==
    Obj([bytes.obj EXCEPT ![name] = Obj((id :> Null) @@ bytes.obj[name].obj)])

\* The streams Restore is handed here: whole snapshots, and streams that
\* decode without error although a collection or a record is missing.
PartialStreams ==
    LET whole == MarshalSnapshot(Snapshot(ApplyAll(NewStore,
                    <<CreateP1, CreateF1, CreateJ1, SetStatus("j1", StatusRunning)>>)))
    IN
    {whole, MarshalSnapshot(Snapshot(NewStore)), Obj(EmptyMap), Null, Invalid,
     WithoutFilaments(whole),
     WithNullRecord(whole, "Printers", "p1"),
     WithNullRecord(whole, "Filaments", "f1"),
     WithNullRecord(whole, "PrintJobs", "j1")}

\* The log entries delivered after a Restore.
PartialCommands ==
    {CreateP1, CreateF1, CreateJ1, SetStatus("j1", StatusRunning),
     SetStatus("j1", StatusDone), SetStatus("j1", StatusCancelled),
     Cmd(OpDelete, EntityFilament, Str("f1")), Cmd(OpDelete, EntityPrintJob, Str("j1")),
     Cmd(OpUpdate, EntityPrinter, Obj([id |-> "p1", company |-> "Prusa", model |-> "MK4"])),
     Invalid}

\* The process is up: no call has ended in a panic.
Up == call = Idle

PartialRestore ==
    /\ Up
    /\ \E stream \in PartialStreams :
        LET r == Restore(store, stream) IN
        /\ store' = r.store
        /\ call' = [name |-> "Restore", stream |-> stream, before |-> store,
                    res |-> r.res]
    /\ UNCHANGED <<snap, sink, deductions, snapshots, appliedSince>>
    /\ UNCHANGED <<concOnly, heap, kept>>

PartialApply ==
    /\ Up
    /\ \E data \in PartialCommands :
        LET r == ApplyRestored(store, data) IN
        /\ store' = r.store
        /\ call' = [name |-> "Apply", data |-> data, cmd |-> DecodeCommand(data),
                    before |-> store, res |-> r.res]
    /\ UNCHANGED <<snap, sink, deductions, snapshots, appliedSince>>
    /\ UNCHANGED <<concOnly, heap, kept>>

PartialSnapshot ==
    /\ Up
    /\ call' = [name |-> "Snapshot", before |-> store, res |-> SnapshotRestored(store).res]
    /\ snap' = [taken |-> TRUE, obj |-> SnapshotRestored(store).obj, at |-> store]
    /\ UNCHANGED <<store, sink, deductions, snapshots, appliedSince>>
    /\ UNCHANGED <<concOnly, heap, kept>>

\* The call returns to its caller, unless it ended in a panic.
PartialReturn == Return /\ call.res # Panic

NextPartial == PartialRestore \/ PartialApply \/ PartialSnapshot \/ PartialReturn

SpecPartial == Init /\ [][NextPartial]_vars

\* ------------------------------------------------ the cluster and its API

\* What a handler writes to the http.ResponseWriter.
Resp(status, msg) == [status |-> status, msg |-> msg]

\* The requests sent to a node: the four writes of the API, one of them with
\* a body that is not JSON, and two reads.
HTTPRequests ==
    {[handler |-> "CreatePrinter", body |-> DecodeCommand(CreateP1).payload],
     [handler |-> "CreatePrinter", body |-> Invalid],
     [handler |-> "CreateFilament", body |-> DecodeCommand(CreateF1).payload],
     [handler |-> "CreatePrintJob", body |-> DecodeCommand(CreateJ1).payload],
     [handler |-> "UpdatePrintJobStatus", id |-> "j1",
      body |-> Obj([status |-> StatusRunning])],
     [handler |-> "GetPrinter", id |-> "p1"],
     [handler |-> "ListPrintJobs"]}

Writes == {"CreatePrinter", "CreateFilament", "CreatePrintJob", "UpdatePrintJobStatus"}

\* Server.IsLeader answering yes on every node.
IsLeader_always(n) == TRUE

\* Server.IsLeader: s.raft.State() == raft.Leader.
IsLeader(n) == cluster.role[n] = Leader

\* A write handler between isLeader and applyCommand: the body is decoded and
\* validated, and the command built; UpdatePrintJobStatus looks the job up in
\* the local store first.
BuildCommand(st, q) ==
    IF q.handler = "CreatePrinter" THEN
        LET d == DecodePrinter(q.body) IN
        IF d.err THEN [err |-> Resp(400, "invalid request body")]
        ELSE IF PrinterValidate(d.v) # Nil THEN [err |-> Resp(400, PrinterValidate(d.v))]
        ELSE [cmd |-> Cmd(OpCreate, EntityPrinter, MarshalPrinter(d.v))]
    ELSE IF q.handler = "CreateFilament" THEN
        LET d == DecodeFilament(q.body) IN
        IF d.err THEN [err |-> Resp(400, "invalid request body")]
        ELSE IF FilamentValidate(d.v) # Nil THEN [err |-> Resp(400, FilamentValidate(d.v))]
        ELSE [cmd |-> Cmd(OpCreate, EntityFilament, MarshalFilament(d.v))]
    ELSE IF q.handler = "CreatePrintJob" THEN
        LET d == DecodePrintJob(q.body) IN
        IF d.err THEN [err |-> Resp(400, "invalid request body")]
        ELSE [cmd |-> Cmd(OpCreate, EntityPrintJob,
                          MarshalPrintJob([d.v EXCEPT !.Status = StatusQueued]))]
    ELSE
        LET d == DecodeStatusChange(q.body) IN
        IF d.err THEN [err |-> Resp(400, "invalid request body")]
        ELSE IF ~Get(st.printJobs, q.id).found THEN [err |-> Resp(404, "print job not found")]
        ELSE [cmd |-> Cmd(OpUpdate, EntityPrintJob, Obj([id |-> q.id, status |-> d.v.Status]))]

\* What a read handler answers from the store of its node.
ReadResponse(st, q) ==
    IF q.handler = "GetPrinter"
    THEN IF Get(st.printers, q.id).found
         THEN [status |-> 200, records |-> Get(st.printers, q.id).records]
         ELSE [status |-> 404, records |-> {}]
    ELSE [status |-> 200, records |-> All(st.printJobs).records]

\* The store of a node once its FSM has applied the committed entries of `log`
\* it had not applied yet.
CaughtUp(n, log) ==
    ApplyAll(cluster.stores[n], SubSeq(log, cluster.applied[n] + 1, Len(log)))

\* What the calls on the cluster leave alone.
fsmOnly == <<store, call, snap, sink, deductions, snapshots, appliedSince,
             procs, writer, readers, heap, kept>>

\* The handler of request r writes its response and returns; `raft` tells
\* whether s.raft.Apply was called on the way.
Respond(r, resp, raft) ==
    [cluster EXCEPT !.reqs[r] = [pc |-> "done", resp |-> resp, raft |-> raft] @@ @]

\* A node wins an election: there is no other leader.
Elect(n) ==
    /\ \A m \in Nodes : cluster.role[m] # Leader
    /\ cluster' = [cluster EXCEPT !.role[n] = Leader]
    /\ UNCHANGED fsmOnly

\* The leader steps down.
StepDown(n) ==
    /\ cluster.role[n] = Leader
    /\ cluster' = [cluster EXCEPT !.role[n] = Follower]
    /\ UNCHANGED fsmOnly

\* The consensus engine hands the next committed entry to the FSM of a node.
RunFSM(n) ==
    /\ cluster.applied[n] < Len(cluster.log)
    /\ cluster' = [cluster EXCEPT
            !.stores[n] = Apply(@, cluster.log[cluster.applied[n] + 1]).store,
            !.applied[n] = @ + 1]
    /\ UNCHANGED fsmOnly

\* A client sends a request to a node of its choice.
Receive(r) ==
    /\ cluster.reqs[r].pc = "new"
    /\ r > 1 => cluster.reqs[r - 1].pc # "new"
    /\ \E n \in Nodes, q \in HTTPRequests :
        cluster' = [cluster EXCEPT !.reqs[r] =
            [pc |-> IF q.handler \in Writes THEN "isLeader" ELSE "read",
             node |-> n, req |-> q]]
    /\ UNCHANGED fsmOnly

\* Handler.isLeader at the head of a write handler.
HandlerIsLeader(r) ==
    /\ cluster.reqs[r].pc = "isLeader"
    /\ cluster' =
         IF ~IsLeader(cluster.reqs[r].node)
         THEN Respond(r, Resp(307, "not the leader, please redirect"), "not called")
         ELSE [cluster EXCEPT !.reqs[r].pc = "build"]
    /\ UNCHANGED fsmOnly

\* The write handler up to applyCommand.
HandlerBuild(r) ==
    /\ cluster.reqs[r].pc = "build"
    /\ LET q == cluster.reqs[r]
           b == BuildCommand(cluster.stores[q.node], q.req)
       IN
       cluster' =
         IF "err" \in DOMAIN b THEN Respond(r, b.err, "not called")
         ELSE [cluster EXCEPT !.reqs[r] = [pc |-> "ServerApply", cmd |-> b.cmd] @@ @]
    /\ UNCHANGED fsmOnly

\* Server.Apply up to s.raft.Apply: the state is looked at once more.
ServerApply(r) ==
    /\ cluster.reqs[r].pc = "ServerApply"
    /\ cluster' =
         IF cluster.role[cluster.reqs[r].node] # Leader
         THEN Respond(r, Resp(500, "not the leader"), "not called")
         ELSE [cluster EXCEPT !.reqs[r].pc = "raftApply"]
    /\ UNCHANGED fsmOnly

\* s.raft.Apply and what the handler makes of the future.  A node that is not
\* the leader gets ErrNotLeader.  On the leader the entry is committed and
\* applied to the leader's FSM, whose return value is the response; or the
\* future fails (leadership lost, timeout), with the entry committed or not.
RaftApply(r) ==
    /\ cluster.reqs[r].pc = "raftApply"
    /\ LET q == cluster.reqs[r]
           n == q.node
           log == Append(cluster.log, q.cmd)
           res == Apply(CaughtUp(n, cluster.log), q.cmd).res
       IN
       IF cluster.role[n] # Leader
       THEN cluster' = Respond(r, Resp(500, "failed to apply command"), "called")
       ELSE \/ cluster' = [Respond(r, IF res # Nil THEN Resp(500, res)
                                      ELSE Resp(201, "ok"), "called")
                           EXCEPT !.log = log,
                                  !.stores[n] = CaughtUp(n, log),
                                  !.applied[n] = Len(log)]
            \/ cluster' = Respond(r, Resp(500, "failed to apply command"), "called")
            \/ cluster' = [Respond(r, Resp(500, "failed to apply command"), "called")
                           EXCEPT !.log = log]
    /\ UNCHANGED fsmOnly

\* A read handler: the accessor of the local store, whatever the node's state.
HandlerRead(r) ==
    /\ cluster.reqs[r].pc = "read"
    /\ LET q == cluster.reqs[r] IN
       cluster' = Respond(r, ReadResponse(cluster.stores[q.node], q.req), "not called")
    /\ UNCHANGED fsmOnly

NextCluster ==
    \/ \E n \in Nodes : Elect(n) \/ StepDown(n) \/ RunFSM(n)
    \/ \E r \in Requests :
        \/ Receive(r) \/ HandlerIsLeader(r) \/ HandlerBuild(r)
        \/ ServerApply(r) \/ RaftApply(r) \/ HandlerRead(r)

SpecCluster == Init /\ [][NextCluster]_vars

\* ------------------------------------------------- what the last call was

IsApply(entity, op) ==
    /\ call.name = "Apply"
    /\ ~ObjectOf(call.data).err
    /\ call.cmd.entity_type = entity
    /\ call.cmd.op = op

\* A member of the payload of the last command, as the decoder sees it: the
\* member of an object, the zero value for null or for a member left out.
Member(name, zero) ==
    IF call.cmd.payload.json = "object" THEN Field(call.cmd.payload.obj, name, zero)
    ELSE zero

Decodable == call.cmd.payload.json \in {"object", "null"}

Max(a, b) == IF a >= b THEN a ELSE b

\* ------------------------------------------------------------------- C2

\* C2: whenever FSM.Apply returned an error, the three collections and every
\* record in them are what they were before the call.
C2_AllOrNothing ==
    (call.name = "Apply" /\ call.res # Nil) => store = call.before

\* An Update to Done was turned away after its transition had been accepted,
\* because the job's filament is gone.
C2_Witness ==
    /\ IsApply(EntityPrintJob, OpUpdate)
    /\ call.res = "filament not found"
    /\ Member("status", "") = StatusDone
    /\ store.printJobs # EmptyMap

\* ------------------------------------------------------------------- C3

\* C3: every stored filament has total weight > 0 and
\* 0 <= remaining weight <= total weight, whatever log entries were applied
\* and whichever snapshot taken by Snapshot was restored.
C3_FilamentWeights ==
    \A f \in DOMAIN store.filaments :
        /\ store.filaments[f].TotalWeightInGrams > 0
        /\ store.filaments[f].RemainingWeightInGrams >= 0
        /\ store.filaments[f].RemainingWeightInGrams
             <= store.filaments[f].TotalWeightInGrams

\* A snapshot was restored in which a job is Done and its filament, which had
\* less left than the job weighs, stands at 0.
C3_Witness ==
    /\ call.name = "Restore"
    /\ call.res = Nil
    /\ call.before # store
    /\ \E j \in DOMAIN store.printJobs :
        /\ store.printJobs[j].Status = StatusDone
        /\ store.printJobs[j].FilamentID \in DOMAIN store.filaments
        /\ store.filaments[store.printJobs[j].FilamentID].RemainingWeightInGrams = 0
        /\ store.filaments[store.printJobs[j].FilamentID].TotalWeightInGrams
             < store.printJobs[j].PrintWeightInGrams

\* ------------------------------------------------------------------- C4

AllowedTransitions ==
    {<<StatusQueued, StatusRunning>>, <<StatusQueued, StatusCancelled>>,
     <<StatusRunning, StatusDone>>, <<StatusRunning, StatusCancelled>>}

\* C4: an Update PrintJob on an existing job with status s and requested
\* status t changes the status only if (s, t) is one of the four allowed
\* pairs; for every other pair Apply returns the invalid-transition error and
\* the status stays s.
C4_StatusStateMachine ==
    (/\ IsApply(EntityPrintJob, OpUpdate)
     /\ Decodable
     /\ Member("id", "") \in DOMAIN call.before.printJobs)
    => LET id == Member("id", "")
           s == call.before.printJobs[id].Status
           t == Member("status", "")
       IN
       /\ id \in DOMAIN store.printJobs
       /\ store.printJobs[id].Status # s => <<s, t>> \in AllowedTransitions
       /\ <<s, t>> \notin AllowedTransitions =>
            /\ call.res = "invalid status transition"
            /\ store.printJobs[id].Status = s

\* Queued -> Done was asked for and refused.
C4_Witness ==
    /\ IsApply(EntityPrintJob, OpUpdate)
    /\ Member("id", "") \in DOMAIN call.before.printJobs
    /\ call.before.printJobs[Member("id", "")].Status = StatusQueued
    /\ Member("status", "") = StatusDone
    /\ call.res = "invalid status transition"

\* ------------------------------------------------------------------- C5

\* C5: a successful Update of a job to Done sets the remaining weight of the
\* job's filament to max(0, remaining before - print weight), leaves that
\* filament's other fields and every other filament as they were, and sets the
\* job's status to Done.
C5_DeductionOnDone ==
    (/\ IsApply(EntityPrintJob, OpUpdate)
     /\ call.res = Nil
     /\ Member("status", "") = StatusDone)
    => LET id == Member("id", "")
           job == call.before.printJobs[id]
           was == call.before.filaments[job.FilamentID]
       IN
       /\ job.Status = StatusRunning
       /\ DOMAIN store.filaments = DOMAIN call.before.filaments
       /\ store.filaments[job.FilamentID] =
            [was EXCEPT !.RemainingWeightInGrams =
                Max(0, was.RemainingWeightInGrams - job.PrintWeightInGrams)]
       /\ \A f \in DOMAIN store.filaments \ {job.FilamentID} :
            store.filaments[f] = call.before.filaments[f]
       /\ store.printJobs[id].Status = StatusDone

\* The overdraw: less was left than the job weighs, and the filament ends at 0
\* while another filament is in the store.
C5_Witness ==
    /\ IsApply(EntityPrintJob, OpUpdate)
    /\ call.res = Nil
    /\ Member("status", "") = StatusDone
    /\ LET job == call.before.printJobs[Member("id", "")] IN
       /\ call.before.filaments[job.FilamentID].RemainingWeightInGrams
            < job.PrintWeightInGrams
       /\ call.before.filaments[job.FilamentID].RemainingWeightInGrams > 0
       /\ store.filaments[job.FilamentID].RemainingWeightInGrams = 0
       /\ DOMAIN store.filaments # {job.FilamentID}

\* ------------------------------------------------------------------- C6

\* C6: while a print-job id stays in the store, at most one Apply lowers a
\* filament's remaining weight for that job, and every Apply that lowers one
\* for a job is an Update to Done.
C6_DeductedOnce ==
    /\ \A j \in DOMAIN deductions : deductions[j] <= 1
    /\ (call.name = "Apply" /\ ~ObjectOf(call.data).err
          /\ DeductedFor(call, store, CommandID(call.cmd)))
       => (call.cmd.op = OpUpdate /\ Member("status", "") = StatusDone)

\* ------------------------------------------------------------------- C7

\* C7: a Create PrintJob with a decodable payload inserts the job, with status
\* Queued, if and only if its base fields are valid, its printer and its
\* filament are in the store and its weight is at most what the filament has
\* left; otherwise Apply returns an error and inserts nothing.
C7_CreateAcceptance ==
    (IsApply(EntityPrintJob, OpCreate) /\ Decodable)
    => LET id == Member("id", "")
           printer == Member("printer_id", "")
           filament == Member("filament_id", "")
           weight == Member("print_weight_in_grams", 0)
           accepted ==
               /\ id # "" /\ printer # "" /\ filament # ""
               /\ Member("filepath", "") # ""
               /\ weight > 0
               /\ printer \in DOMAIN call.before.printers
               /\ filament \in DOMAIN call.before.filaments
               /\ weight <= call.before.filaments[filament].RemainingWeightInGrams
           job == [ID |-> id, PrinterID |-> printer, FilamentID |-> filament,
                   Filepath |-> Member("filepath", ""),
                   PrintWeightInGrams |-> weight, Status |-> StatusQueued]
       IN
       IF accepted
       THEN /\ call.res = Nil
            /\ store = [call.before EXCEPT !.printJobs = MapPut(@, id, job)]
       ELSE /\ call.res # Nil
            /\ store = call.before

\* A job that needs exactly what the filament has left is accepted.
C7_Witness ==
    /\ IsApply(EntityPrintJob, OpCreate)
    /\ call.res = Nil
    /\ Member("id", "") \in DOMAIN store.printJobs
    /\ Member("print_weight_in_grams", 0) =
         call.before.filaments[Member("filament_id", "")].RemainingWeightInGrams

\* ------------------------------------------------------------------- C8

Overdrawn ==
    /\ IsApply(EntityPrintJob, OpCreate)
    /\ Decodable
    /\ Member("filament_id", "") \in DOMAIN call.before.filaments
    /\ Member("print_weight_in_grams", 0) >
         call.before.filaments[Member("filament_id", "")].RemainingWeightInGrams

\* C8 as stated: a Create PrintJob whose weight exceeds what its filament has
\* left is rejected, afterwards no job with that id is in the store and the
\* filament is unchanged.
C8_AsStated ==
    Overdrawn =>
        /\ call.res # Nil
        /\ Member("id", "") \notin DOMAIN store.printJobs
        /\ store.filaments = call.before.filaments

\* C8: a Create PrintJob whose weight exceeds what its filament has left is
\* rejected, and the rejection leaves the print jobs and the filaments as they
\* were: nothing is inserted, and a job stored earlier under that id stays.
C8_InsufficientFilament ==
    Overdrawn =>
        /\ call.res # Nil
        /\ store.printJobs = call.before.printJobs
        /\ store.filaments = call.before.filaments

\* The rejection for lack of filament of a Create whose id was already stored:
\* the earlier job is still there.
C8_Witness ==
    /\ Overdrawn
    /\ call.res = "insufficient filament"
    /\ Member("id", "") \in DOMAIN call.before.printJobs
    /\ Member("id", "") \in DOMAIN store.printJobs

\* ------------------------------------------------------------------- C9

\* C9: a snapshot taken by Snapshot, written by Persist and fed to Restore,
\* on whatever store, leaves the store with the ids, the field values and the
\* job statuses the store had when the snapshot was taken.
C9_RoundTrip ==
    (/\ call.name = "Restore"
     /\ sink.written
     /\ call.stream = sink.bytes)
    => (call.res = Nil /\ store = sink.at)

\* The snapshot held a job that is Done and was restored over a store that
\* had moved on and was not empty.
C9_Witness ==
    /\ call.name = "Restore"
    /\ call.res = Nil
    /\ call.before # sink.at
    /\ call.before # NewStore
    /\ \E j \in DOMAIN store.printJobs : store.printJobs[j].Status = StatusDone

\* A Restore that has made some but not all of its three assignments.
MidRestore(p) == procs[p].pc \in {"RestoreFilaments", "RestorePrintJobs"}

\* A reader inside its critical section: an accessor or Snapshot holding the
\* read lock.
Reading(p) ==
    procs[p].pc \in {"Read", "ReadRUnlock", "SnapshotPrinters", "SnapshotFilaments",
                     "SnapshotPrintJobs", "SnapshotRUnlock"}

\* C10: Restore replaces, never merges. When a Restore has succeeded and is
\* about to release the lock, the three collections of the store are exactly
\* those decoded from the stream, which are those of the store the snapshot was
\* taken of; every printer, filament and job that was in the store before the
\* Restore and is not in the snapshot is absent. And no reader is inside its
\* critical section while a Restore has assigned some but not all of the three
\* collections, so no reader sees a mix of old and new collections.
C10_RestoreReplaces ==
    /\ \A p \in Procs :
        procs[p].pc = "RestoreUnlock" =>
            LET snapshot == procs[p].snapshot
                before == procs[p].before
            IN
            /\ procs[p].res = Nil
            /\ store.printers = snapshot.Printers
            /\ store.filaments = snapshot.Filaments
            /\ store.printJobs = snapshot.PrintJobs
            /\ \A st \in Prepared :
                procs[p].arg = MarshalSnapshot(Snapshot(st)) => store = st
            /\ \A id \in DOMAIN before.printers \ DOMAIN snapshot.Printers :
                id \notin DOMAIN store.printers
            /\ \A id \in DOMAIN before.filaments \ DOMAIN snapshot.Filaments :
                id \notin DOMAIN store.filaments
            /\ \A id \in DOMAIN before.printJobs \ DOMAIN snapshot.PrintJobs :
                id \notin DOMAIN store.printJobs
    /\ \A r \in Procs : Reading(r) => \A p \in Procs : ~MidRestore(p)

\* A Restore has succeeded over a store that held a job the snapshot does not
\* hold, while a read accessor waits for the lock.
C10_Witness ==
    \E p, r \in Procs :
        /\ procs[p].pc = "RestoreUnlock"
        /\ DOMAIN procs[p].before.printJobs \ DOMAIN procs[p].snapshot.PrintJobs # {}
        /\ DOMAIN procs[p].snapshot.Printers # {}
        /\ procs[r].pc = "ReadRLock"

\* C11: a Restore that fails leaves the store alone. When the byte stream does
\* not decode into a snapshot, Restore returns an error and the printers, the
\* filaments and the print jobs of the store are what they were before the
\* call, whatever part of the stream the decoder could read.
C11_RestoreFailure ==
    (call.name = "Restore" /\ DecodeSnapshot(call.stream).err) =>
        /\ call.res # Nil
        /\ store.printers = call.before.printers
        /\ store.filaments = call.before.filaments
        /\ store.printJobs = call.before.printJobs

\* A Restore has failed on a damaged snapshot whose readable part holds
\* printers, over a store that holds a job.
C11_Witness ==
    /\ call.name = "Restore"
    /\ call.res # Nil
    /\ call.stream.json = "object"
    /\ DOMAIN DecodeSnapshot(call.stream).v.Printers # {}
    /\ DOMAIN call.before.printJobs # {}
    /\ store = call.before

\* The stepwise writes of an Apply on the pointers leave the Store holding what
\* Apply computes by value.
HeapAgrees ==
    \A p \in Procs :
        (procs[p].name = "Apply" /\ procs[p].pc = "Unlock") =>
            StoreOf(heap) = Apply(StoreOf(procs[p].before), procs[p].arg).store

\* A goroutine holding a Snapshot object that FSM.Snapshot has returned.
HoldsSnapshot(p) ==
    procs[p].name = "Snapshot" /\ procs[p].pc \in {"Persist", "idle"}

\* C12: snapshot isolation. Once Snapshot has returned, what the Snapshot
\* object holds (every printer, filament and print job, field by field) stays
\* what it was when Snapshot returned, whatever Apply and Restore calls run
\* afterwards, an Update to Done that writes a filament and a job in place
\* included; and what Persist marshals later is that same content.
C12_SnapshotIsolation ==
    \A p \in Procs :
        HoldsSnapshot(p) =>
            /\ Contents(heap, procs[p].obj) = procs[p].returned
            /\ procs[p].pc = "idle" => procs[p].bytes = MarshalSnapshot(procs[p].returned)

\* A Snapshot object is held while an Update to Done, applied after Snapshot
\* returned, has lowered a filament and marked a job Done in the Store.
C12_Witness ==
    \E p \in Procs :
        /\ procs[p].pc = "Persist"
        /\ "j1" \in DOMAIN procs[p].returned.PrintJobs
        /\ procs[p].returned.PrintJobs["j1"].Status = StatusRunning
        /\ "j1" \in DOMAIN heap.printJobs
        /\ StoreOf(heap).printJobs["j1"].Status = StatusDone
        /\ StoreOf(heap).filaments["f1"].RemainingWeightInGrams
             < procs[p].returned.Filaments["f1"].RemainingWeightInGrams

\* A goroutine inside an Apply that has made its first write and not its last.
InFlight(p) == procs[p].name = "Apply" /\ procs[p].pc \in {"Clamp", "WriteStatus"}

\* The caller of an accessor reads the records behind the pointers it got.
Encodes(p) == procs[p].pc = "Encode" /\ procs'[p].pc = "idle"

\* C13: reader atomicity. Whenever the caller of a read accessor reads the
\* records the accessor returned while an Apply is under way, every record it
\* reads is as it was before that Apply or as it is once that Apply is
\* complete: no value written half way through a command is read.
C13_ReaderAtomicity ==
    [][\A r \in Procs :
        Encodes(r) =>
            \A p \in Procs :
                InFlight(p) =>
                    \/ Through(heap, procs[r].ptrs) = Through(procs[p].before, procs[r].ptrs)
                    \/ Through(heap, procs[r].ptrs)
                         = Through(HeapApply(procs[p].before, procs[p].arg), procs[r].ptrs)]_vars

\* C14: readers get copies, not aliases. As long as a caller holds the
\* records an accessor returned, what it sees through them is what they held
\* when the accessor returned, whatever Apply runs in between.
C14_ReadersGetCopies ==
    \A p \in Procs :
        procs[p].pc = "Encode" => Through(heap, procs[p].ptrs) = procs[p].returned

\* C15: the status Update is the only way a stored job changes. For every job
\* id that is in the store before and after an Apply, the printer, the
\* filament, the file path and the print weight of the job are the same, and
\* the status differs only if the command was a successful Update PrintJob for
\* that id.
C15_OnlyUpdateMutatesJobs ==
    call.name = "Apply" =>
        \A id \in DOMAIN call.before.printJobs \cap DOMAIN store.printJobs :
            LET old == call.before.printJobs[id]
                new == store.printJobs[id]
            IN
            /\ new.PrinterID = old.PrinterID
            /\ new.FilamentID = old.FilamentID
            /\ new.Filepath = old.Filepath
            /\ new.PrintWeightInGrams = old.PrintWeightInGrams
            /\ new.Status # old.Status =>
                /\ IsApply(EntityPrintJob, OpUpdate)
                /\ call.res = Nil
                /\ Member("id", "") = id

\* C16: terminal statuses are absorbing. In every step, a job that is Done or
\* Cancelled before the step and whose id is still in the store after it has
\* the same status after it.
C16_TerminalAbsorbing ==
    [][\A id \in DOMAIN store.printJobs \cap DOMAIN store'.printJobs :
        store.printJobs[id].Status \in {StatusDone, StatusCancelled} =>
            store'.printJobs[id].Status = store.printJobs[id].Status]_vars

\* The status values a Create PrintJob payload may carry: the four statuses,
\* the empty string and one that is no status.
PayloadStatuses == validStatuses \cup {"", "Paused"}

\* The last command with the status member of its payload set to s.
WithStatus(s) ==
    Cmd(call.cmd.op, call.cmd.entity_type,
        Obj([k \in DOMAIN call.cmd.payload.obj \cup {"status"} |->
                IF k = "status" THEN s ELSE call.cmd.payload.obj[k]]))

\* C17: Create forces Queued. After a successful Create PrintJob the stored
\* job is Queued whatever status the payload carried; the status of the payload
\* decides nothing: with any other status in its place (Running, Done,
\* Cancelled, empty, or one outside the four) the same command on the same
\* store gives the same result and the same store, and no Create is refused
\* for its status.
C17_CreateForcesQueued ==
    (IsApply(EntityPrintJob, OpCreate) /\ call.cmd.payload.json = "object") =>
        /\ call.res = Nil => store.printJobs[Member("id", "")].Status = StatusQueued
        /\ call.res # "status must be one of: Queued, Running, Done, Cancelled"
        /\ \A s \in PayloadStatuses :
            /\ Apply(call.before, WithStatus(s)).res = call.res
            /\ Apply(call.before, WithStatus(s)).store = store

\* A Create PrintJob whose payload carried a status outside the four was
\* accepted and the job is stored as Queued.
C17_Witness ==
    /\ IsApply(EntityPrintJob, OpCreate)
    /\ Member("status", "") = "Paused"
    /\ call.res = Nil
    /\ store.printJobs[Member("id", "")].Status = StatusQueued

\* C18: rejections consume their slot and change nothing. After any sequence
\* of log entries, each answered by Apply with nil or with an error, the store
\* is the store that the entries answered with nil, applied alone in the same
\* order, build from the empty store.
C18_RejectionsConsumeSlot == store = ApplyAll(NewStore, kept.log)

\* Some entry delivered was rejected, and the entry delivered last, after it,
\* was accepted and changed the store.
C18_Witness ==
    /\ kept.n >= 2
    /\ Len(kept.log) = kept.base + 1
    /\ kept.res = Nil
    /\ store # ApplyAll(NewStore, SubSeq(kept.log, 1, kept.base))

\* A goroutine between acquiring and releasing the write lock in Apply, and
\* the same in Restore.
InApply(p) == procs[p].pc \in {"ApplyBody", "ApplyStatus", "ApplyUnlock"}

InRestore(p) ==
    procs[p].pc \in {"RestorePrinters", "RestoreFilaments", "RestorePrintJobs",
                     "RestoreUnlock"}

\* Two read accessors are inside their critical sections at the same time.
TwoReaders == \E p, q \in Procs : p # q /\ procs[p].pc = "Read" /\ procs[q].pc = "Read"

\* C19: Apply is exclusive for its full duration. While a goroutine is
\* between acquiring and releasing the store lock in Apply, no other goroutine
\* is inside the critical section of an Apply, of a Restore, of a Snapshot or
\* of a read accessor.
C19_ApplyExclusive ==
    \A p \in Procs :
        InApply(p) =>
            /\ writer = p
            /\ readers = {}
            /\ \A q \in Procs \ {p} : ~InApply(q) /\ ~InRestore(q) /\ ~Reading(q)

\* An Apply is between its two writes of an Update to Done while a read
\* accessor waits for the lock.
C19_Witness ==
    \E p, q \in Procs :
        /\ procs[p].pc = "ApplyStatus"
        /\ procs[q].pc = "ReadRLock"

\* What a Snapshot has copied by the time it is about to return.
Captured(p) ==
    [Printers |-> procs[p].printers, Filaments |-> procs[p].filaments,
     PrintJobs |-> procs[p].printJobs]

\* C20: snapshots are cut at command boundaries. When Snapshot has made its
\* three copies, what it captured is the store as it stands, all three
\* collections from the same state, and the store is not inside a command: no
\* Apply is between its first write and its return and no Restore is between
\* its first and its last assignment; the same holds while the copies are
\* being made.
C20_SnapshotAtBoundary ==
    \A p \in Procs :
        /\ procs[p].pc = "SnapshotRUnlock" => Captured(p) = Snapshot(store)
        /\ procs[p].pc \in {"SnapshotFilaments", "SnapshotPrintJobs"} =>
                procs[p].printers = Snapshot(store).Printers
        /\ procs[p].pc = "SnapshotPrintJobs" =>
                procs[p].filaments = Snapshot(store).Filaments
        /\ procs[p].pc \in {"SnapshotPrinters", "SnapshotFilaments", "SnapshotPrintJobs",
                            "SnapshotRUnlock"} =>
                \A q \in Procs : procs[q].pc # "ApplyStatus" /\ ~MidRestore(q)

\* A Snapshot has captured a running job while an Update of that job to Done
\* waits for the lock.
C20_Witness ==
    \E p, q \in Procs :
        /\ procs[p].pc = "SnapshotRUnlock"
        /\ "j1" \in DOMAIN procs[p].printJobs
        /\ procs[p].printJobs["j1"].Status = StatusRunning
        /\ procs[q].pc = "ApplyLock"
        /\ procs[q].arg = SetStatus("j1", StatusDone)

\* A store whose three maps are made and hold no nil pointer.
Usable(st) ==
    \A c \in Collections :
        /\ st[c] # NilPointer
        /\ \A k \in DOMAIN st[c] : st[c][k] # NilPointer

\* C21: Restore never installs partial state. After every Restore, whatever
\* the stream, either Restore returned an error and the store is what it was,
\* or the three collections of the store are made and every entry of them
\* leads to a record; and no Apply and no Snapshot that follows ends in a
\* panic.
C21_NoPartialRestore ==
    /\ call.name = "Restore" =>
        \/ call.res # Nil /\ store = call.before
        \/ call.res = Nil /\ Usable(store)
    /\ call.name \in {"Apply", "Snapshot"} => call.res # Panic

\* The three entity kinds, and the not-found error of each.
Entities == {EntityPrinter, EntityFilament, EntityPrintJob}

NotFound(entity) ==
    IF entity = EntityPrinter THEN "printer not found"
    ELSE IF entity = EntityFilament THEN "filament not found"
    ELSE "print job not found"

\* The last command is an Update or a Delete of `entity` whose payload decodes.
UpdatesOrDeletes(entity) ==
    \/ IsApply(entity, OpUpdate) /\ Decodable
    \/ IsApply(entity, OpDelete) /\ ~DecodeID(call.cmd.payload).err

\* The id the last command names.
NamedID == IF call.cmd.op = OpDelete THEN DecodeID(call.cmd.payload).v ELSE Member("id", "")

\* What Validate says of the record in the payload of a Printer or Filament
\* Update; the other commands validate nothing before they look the id up.
PayloadInvalid(entity) ==
    IF call.cmd.op # OpUpdate THEN Nil
    ELSE IF entity = EntityPrinter THEN PrinterValidate(DecodePrinter(call.cmd.payload).v)
    ELSE IF entity = EntityFilament THEN FilamentValidate(DecodeFilament(call.cmd.payload).v)
    ELSE Nil

\* A successful Printer or Filament Update stored the record of its payload
\* under an id that was there before.
UpdateReplaces(entity) ==
    (IsApply(entity, OpUpdate) /\ call.res = Nil /\ entity # EntityPrintJob) =>
        /\ NamedID \in DOMAIN call.before[Collection(entity)]
        /\ store[Collection(entity)][NamedID] =
              (IF entity = EntityPrinter THEN DecodePrinter(call.cmd.payload).v
               ELSE DecodeFilament(call.cmd.payload).v)

\* After a successful Delete, get-by-id reports not found, as on a store that
\* never held the id.
DeleteForgets(entity) ==
    (IsApply(entity, OpDelete) /\ call.res = Nil) =>
        /\ NamedID \in DOMAIN call.before[Collection(entity)]
        /\ ~Get(store[Collection(entity)], NamedID).found
        /\ Get(store[Collection(entity)], NamedID) = Get(NewStore[Collection(entity)], NamedID)

\* C22 as the claim has it: every decodable Update or Delete of an id that is
\* not stored is answered with the not-found error.
C22_AsStated ==
    \A entity \in Entities :
        /\ (UpdatesOrDeletes(entity) /\ NamedID \notin DOMAIN call.before[Collection(entity)]) =>
              /\ call.res = NotFound(entity)
              /\ store = call.before
        /\ UpdateReplaces(entity)
        /\ DeleteForgets(entity)

\* C22: Update and Delete require an existing id. A decodable Update or Delete
\* of an id that is not stored is answered with an error, creates nothing and
\* leaves the store as it was; the error is the not-found error, except for a
\* Printer or Filament Update whose record fails Validate, which is answered
\* with the validation error before the id is looked up. A successful Printer
\* or Filament Update replaces the stored record with the payload's, and after
\* a successful Delete get-by-id reports not found, as for an id never created.
C22_UpdateDeleteNeedID ==
    \A entity \in Entities :
        /\ (UpdatesOrDeletes(entity) /\ NamedID \notin DOMAIN call.before[Collection(entity)]) =>
              /\ call.res = (IF PayloadInvalid(entity) # Nil THEN PayloadInvalid(entity)
                             ELSE NotFound(entity))
              /\ NamedID \notin DOMAIN store[Collection(entity)]
              /\ store = call.before
        /\ UpdateReplaces(entity)
        /\ DeleteForgets(entity)

\* A valid Filament Update named an id that is not stored, on a store that
\* holds another filament, and was answered with the not-found error.
C22_Witness ==
    /\ IsApply(EntityFilament, OpUpdate)
    /\ PayloadInvalid(EntityFilament) = Nil
    /\ DOMAIN call.before.filaments # {}
    /\ NamedID \notin DOMAIN call.before.filaments
    /\ call.res = "filament not found"
    /\ store = call.before

\* The last command was a successful Update of a print job to Done.
MarkedDone ==
    /\ IsApply(EntityPrintJob, OpUpdate)
    /\ call.res = Nil
    /\ Member("status", "") = StatusDone

\* The filaments differ from those before the call at most in the remaining
\* weight of the filament `id`.
OnlyRemainingOf(id) ==
    /\ DOMAIN store.filaments = DOMAIN call.before.filaments
    /\ \A f \in DOMAIN store.filaments :
        IF f = id
        THEN [store.filaments[f] EXCEPT !.RemainingWeightInGrams =
                 call.before.filaments[f].RemainingWeightInGrams] = call.before.filaments[f]
        ELSE store.filaments[f] = call.before.filaments[f]

\* C23: the frame of each command. An Apply leaves every collection other
\* than the one of its command's entity kind as it was; a command of no known
\* kind leaves all three. The one exception is a successful Update of a print
\* job to Done, after which the filaments differ at most in the remaining
\* weight of that job's filament. So deleting a printer or a filament changes no
\* print job, and Create, Delete and Update to Running or Cancelled of a print
\* job change no filament.
C23_Frame ==
    call.name = "Apply" =>
        \A c \in Collections :
            (call.cmd.entity_type \notin Entities \/ c # Collection(call.cmd.entity_type)) =>
                IF c = "filaments" /\ MarkedDone
                THEN OnlyRemainingOf(call.before.printJobs[Member("id", "")].FilamentID)
                ELSE store[c] = call.before[c]

\* A filament was deleted while a stored print job refers to it, and the job
\* is still there.
C23_Witness ==
    /\ IsApply(EntityFilament, OpDelete)
    /\ call.res = Nil
    /\ \E j \in DOMAIN store.printJobs :
        /\ store.printJobs[j].FilamentID = NamedID
        /\ store.printJobs[j] = call.before.printJobs[j]

\* ------------------------------------------------------------------ C25

\* Every key of a collection is the ID of the record stored under it.
KeyedByID(m) == \A id \in DOMAIN m : m[id].ID = id

\* C25: in every store reached by Apply calls and by Restore of snapshots that
\* Snapshot produced, every collection key equals the id of the record under
\* it, every stored printer has a non-empty id, company and model, and every
\* stored print job has a non-empty id, printer_id, filament_id and filepath,
\* a print weight > 0 and a status among Queued, Running, Done, Cancelled.
C25_WellFormed ==
    /\ KeyedByID(store.printers)
    /\ KeyedByID(store.filaments)
    /\ KeyedByID(store.printJobs)
    /\ \A p \in DOMAIN store.printers :
        /\ store.printers[p].ID # ""
        /\ store.printers[p].Company # ""
        /\ store.printers[p].Model # ""
    /\ \A j \in DOMAIN store.printJobs :
        /\ store.printJobs[j].ID # ""
        /\ store.printJobs[j].PrinterID # ""
        /\ store.printJobs[j].FilamentID # ""
        /\ store.printJobs[j].Filepath # ""
        /\ store.printJobs[j].PrintWeightInGrams > 0
        /\ store.printJobs[j].Status \in validStatuses

\* A snapshot holding a printer and a job that has left Queued replaced the
\* store of a restarted process.
C25_Witness ==
    /\ call.name = "Restore"
    /\ call.res = Nil
    /\ call.before = NewStore
    /\ store.printers # EmptyMap
    /\ \E j \in DOMAIN store.printJobs : store.printJobs[j].Status # StatusQueued

\* ------------------------------------------------------------------ C26

\* The last call was an Update of a job that was in the store with one of the
\* statuses `from`, asking for the status `to`.
AskedToMove(from, to) ==
    /\ IsApply(EntityPrintJob, OpUpdate)
    /\ Decodable
    /\ Member("id", "") \in DOMAIN call.before.printJobs
    /\ call.before.printJobs[Member("id", "")].Status \in from
    /\ Member("status", "") = to

\* The printer and the filament of the job the last call named were both gone
\* from the store when the call was made.
Orphaned ==
    /\ call.before.printJobs[Member("id", "")].PrinterID
         \notin DOMAIN call.before.printers
    /\ call.before.printJobs[Member("id", "")].FilamentID
         \notin DOMAIN call.before.filaments

\* C26: an Update to Cancelled of a job that is Queued or Running is accepted
\* and leaves the job Cancelled, whether or not the job's printer and filament
\* are still in the store; an Update to Done of a Running job whose filament is
\* no longer in the store is turned away with "filament not found" and the job
\* stays Running.
C26_NoJobStuck ==
    /\ AskedToMove({StatusQueued, StatusRunning}, StatusCancelled)
         => /\ call.res = Nil
            /\ store.printJobs[Member("id", "")].Status = StatusCancelled
    /\ (/\ AskedToMove({StatusRunning}, StatusDone)
        /\ call.before.printJobs[Member("id", "")].FilamentID
             \notin DOMAIN call.before.filaments)
         => /\ call.res = "filament not found"
            /\ store.printJobs[Member("id", "")].Status = StatusRunning

\* A Running job whose printer and filament had both been deleted was
\* cancelled.
C26_Witness ==
    /\ AskedToMove({StatusRunning}, StatusCancelled)
    /\ Orphaned
    /\ call.res = Nil
    /\ store.printJobs[Member("id", "")].Status = StatusCancelled

\* ------------------------------------------------------------------ C27

\* Where a call stands when it holds the lock for writing, and for reading.
WriteHeld ==
    {"ApplyBody", "ApplyStatus", "ApplyUnlock",
     "RestorePrinters", "RestoreFilaments", "RestorePrintJobs", "RestoreUnlock"}

ReadHeld ==
    {"SnapshotPrinters", "SnapshotFilaments", "SnapshotPrintJobs", "SnapshotRUnlock",
     "Read", "ReadRUnlock"}

\* Each goroutine holds the lock exactly between the acquire and the release
\* of its call, in the mode of that call: a call that has returned, with an
\* error or without, holds nothing, and so does one that has not reached its
\* acquire.
HeldWithinCall ==
    \A p \in Procs :
        /\ writer = p <=> procs[p].pc \in WriteHeld
        /\ p \in readers <=> procs[p].pc \in ReadHeld

ChecksOnFollower(r) ==
    /\ cluster.reqs[r].pc \in {"isLeader", "ServerApply"}
    /\ cluster.role[cluster.reqs[r].node] # Leader

\* Request r is a write in the hands of a node that is not the leader.
WriteOnFollower(r) ==
    /\ cluster.reqs[r].pc \in {"isLeader", "build", "ServerApply", "raftApply"}
    /\ cluster.role[cluster.reqs[r].node] # Leader

====
